---- MODULE Spec2Model ----
(***************************************************************************)
(* A model of the CCSDS 123.0-B-2 lossless codec of this repository: the   *)
(* scan controller, local-difference unit, predictor, weight updater and   *)
(* residual mapper of modules.cpp, and the sample-adaptive Golomb coder,   *)
(* bit I/O, container framer and encode/decode drivers of                  *)
(* Ccsds123Codec.cpp.  Integers are mathematical where every value reached *)
(* within the bounds below fits the C++ type it models; the 16-bit header  *)
(* fields are reduced modulo 2^16 where the code casts, and the shifts of  *)
(* the scale-exponent schedule and of the weight limit keep the 32 bits of *)
(* int.                                                                    *)
(***************************************************************************)
EXTENDS Integers, Sequences, FiniteSets, TLC

VARIABLES
  params,   \* the caller's Params, given to encode and to decode
  input,    \* the caller's sample buffer (BSQ order), indexed from 0
  out,      \* the Bitstream handed to encode and then to decode
  pc,       \* position of the driver: which call runs, or how it ended
  err,      \* the error kind a failed call surfaced, "none" otherwise
  enc,      \* locals of encode_payload (loop index, control, bands, coder, writer)
  dec,      \* locals of decode_payload (loop index, control, bands, coder, reader)
  output,   \* the caller's output span of decode, indexed from 0
  sent,     \* the container as encode left it, kept when the channel alters out
  channel,  \* what happened to the container between encode and decode
  probe     \* the unit under test when one module function is driven alone

vars == <<params, input, out, pc, err, enc, dec, output, sent, channel, probe>>

(***************************************************************************)
(* Bounds of the model.                                                    *)
(***************************************************************************)
MaxNX == 2
MaxNY == 3
MaxNZ == 2
MaxD == 8
\* an image of the pipeline holds at most this many bits (NX*NY*NZ*D)
MaxImageBits == 8
\* an image sent through the altering channel holds at most this many bits
MaxChannelBits == 6

(***************************************************************************)
(* Program constants.                                                      *)
(***************************************************************************)
kVersionV2 == 2
kVersionV3 == 3
kFlagReduced == 1
kFlagColumnOriented == 2
\* sizeof(HeaderLayoutV2) and sizeof(HeaderLayoutV3), both packed
SizeofHeaderLayoutV2 == 30
SizeofHeaderLayoutV3 == 46
\* enum class LocalSumMode { NeighborWide, NeighborNarrow, ColumnWide, ColumnNarrow }
NeighborWide == 0
NeighborNarrow == 1
\* the mark of an output element decode has not written
Unwritten == -1

kMagic == <<67, 49, 50, 51>>

Pow2(n) == 2 ^ n

\* x >> n on a signed value: the arithmetic shift, floor division
Shr(x, n) == x \div Pow2(n)

\* x << n
Shl(x, n) == x * Pow2(n)

Min(a, b) == IF a < b THEN a ELSE b

Max(a, b) == IF a > b THEN a ELSE b

Abs(a) == IF a < 0 THEN -a ELSE a

(***************************************************************************)
(* modules.cpp: helpers.                                                   *)
(***************************************************************************)
clip_int64(value, lo, hi) == Min(Max(value, lo), hi)

sign_extend(value, bits) ==
  IF bits <= 0 \/ bits >= 64 THEN value
  ELSE LET masked == value % Pow2(bits)
       IN  IF masked >= Pow2(bits - 1) THEN masked - Pow2(bits) ELSE masked

mod_pow2(value, bits) ==
  IF bits <= 0 THEN 0
  ELSE IF bits >= 64 THEN value
  ELSE sign_extend(value % Pow2(bits), bits)

\* a faulty theta that takes the larger of the two distances
theta_from_pred_far(pred, depth) == Max(pred + Pow2(depth - 1), (Pow2(depth - 1) - 1) - pred)

theta_from_pred(pred, depth) ==
  LET half == Pow2(depth - 1)
      lo == pred + half
      hi == (half - 1) - pred
  IN  Min(lo, hi)

is_even(value) == value % 2 = 0

(***************************************************************************)
(* modules.cpp: ControlState.  A control state is [x, y, z, t]; step       *)
(* returns the Output (z and the control signals) and the advanced state.  *)
(***************************************************************************)
ControlConfig(p) ==
  [nx |-> p.NX, ny |-> p.NY, nz |-> p.NZ,
   v_min |-> p.v_min, v_max |-> p.v_max, tinc_log |-> p.tinc_log]

ControlInit == [x |-> 0, y |-> 0, z |-> 0, t |-> 0]

\* v << n in a 32-bit int, for 0 <= n <= 31: the bits shifted past bit 31 are
\* lost and bit 31 is the sign (the result is v * 2^n modulo 2^32)
shl_i32(v, n) ==
  IF n = 0 THEN v
  ELSE (IF n = 31 THEN 0 ELSE (v % Pow2(31 - n)) * Pow2(n))
         + (IF (v \div Pow2(31 - n)) % 2 = 1 THEN (-Pow2(30)) - Pow2(30) ELSE 0)

\* v >> n in a 32-bit int, for 0 <= n <= 31
shr_i32(v, n) == IF n >= 31 THEN (IF v < 0 THEN -1 ELSE 0) ELSE Shr(v, n)

scale_exponent_at(cfg, t) ==
  LET limit == cfg.v_max - cfg.v_min
      t_adjusted == t - cfg.nx
  IN  IF t_adjusted <= 0 THEN cfg.v_min
      ELSE IF t_adjusted >= shl_i32(limit, cfg.tinc_log) THEN cfg.v_max
      ELSE cfg.v_min + shr_i32(t_adjusted, cfg.tinc_log)

step_output(cfg, cs) ==
  [z |-> cs.z,
   ctrl |-> [first_line |-> cs.y = 0,
             first_in_line |-> cs.x = 0,
             last_in_line |-> cs.x = cfg.nx - 1,
             last |-> cs.x = cfg.nx - 1 /\ cs.y = cfg.ny - 1 /\ cs.z = cfg.nz - 1,
             scale_exponent |-> scale_exponent_at(cfg, cs.t)]]

\* a faulty cursor update that lets z run one band too far before it wraps
step_advance_late_wrap(cfg, cs) ==
  IF cs.z + 1 > cfg.nz
  THEN [x |-> IF cs.x = cfg.nx - 1 THEN 0 ELSE cs.x + 1,
        y |-> IF cs.x = cfg.nx - 1
              THEN (IF cs.y = cfg.ny - 1 THEN 0 ELSE cs.y + 1)
              ELSE cs.y,
        z |-> 0, t |-> cs.t + 1]
  ELSE [cs EXCEPT !.z = cs.z + 1]

step_advance(cfg, cs) ==
  IF cs.z + 1 > cfg.nz - 1
  THEN LET spatial_limit == cfg.nx * cfg.ny
           t1 == IF spatial_limit > 0 THEN (cs.t + 1) % spatial_limit ELSE cs.t + 1
       IN  IF cs.x = cfg.nx - 1
           THEN [x |-> 0, y |-> IF cs.y = cfg.ny - 1 THEN 0 ELSE cs.y + 1, z |-> 0, t |-> t1]
           ELSE [x |-> cs.x + 1, y |-> cs.y, z |-> 0, t |-> t1]
  ELSE [cs EXCEPT !.z = cs.z + 1]

(***************************************************************************)
(* modules.cpp: local_diff, dot_product, init_weights, predictor,          *)
(* weight_update.  Vectors of the code are functions on 0..n-1.            *)
(***************************************************************************)
\* a faulty local sum that counts the west neighbour twice, not four times,
\* on the first line
local_sum_terms_west_twice(ctrl, samples, column_oriented) ==
  IF ~ctrl.first_line /\ ~ctrl.first_in_line /\ ~ctrl.last_in_line
  THEN (samples.west + samples.north_west) + (samples.north + samples.north_east)
  ELSE IF ctrl.first_line /\ ~ctrl.first_in_line THEN 2 * samples.west
  ELSE IF ~ctrl.first_line /\ ctrl.first_in_line
  THEN 2 * samples.north + 2 * samples.north_east
  ELSE IF ~ctrl.first_line /\ ctrl.last_in_line
  THEN (samples.west + samples.north_west) + 2 * samples.north
  ELSE 0

\* term1 + term2 of local_diff, before the origin override
local_sum_terms(ctrl, samples, column_oriented) ==
  IF column_oriented
  THEN (IF ~ctrl.first_line THEN 4 * samples.north ELSE 4 * samples.west)
  ELSE IF ~ctrl.first_line /\ ~ctrl.first_in_line /\ ~ctrl.last_in_line
  THEN (samples.west + samples.north_west) + (samples.north + samples.north_east)
  ELSE IF ctrl.first_line /\ ~ctrl.first_in_line THEN 4 * samples.west
  ELSE IF ~ctrl.first_line /\ ctrl.first_in_line
  THEN 2 * samples.north + 2 * samples.north_east
  ELSE IF ~ctrl.first_line /\ ctrl.last_in_line
  THEN (samples.west + samples.north_west) + 2 * samples.north
  ELSE 0

\* faulty differences that keep west and north_west in the first column
local_diff_from_west_kept(ctrl, samples, local_sum) ==
  [local_sum |-> local_sum,
   d_c |-> IF ctrl.first_line /\ ctrl.first_in_line THEN 0
           ELSE 4 * samples.cur - local_sum,
   d_n |-> IF ~ctrl.first_line THEN 4 * samples.north - local_sum ELSE 0,
   d_w |-> IF ~ctrl.first_line THEN 4 * samples.west - local_sum ELSE 0,
   d_nw |-> IF ~ctrl.first_line THEN 4 * samples.north_west - local_sum ELSE 0]

\* the differences of local_diff once out.local_sum is fixed
local_diff_from(ctrl, samples, local_sum) ==
  [local_sum |-> local_sum,
   d_c |-> IF ctrl.first_line /\ ctrl.first_in_line THEN 0
           ELSE 4 * samples.cur - local_sum,
   d_n |-> IF ~ctrl.first_line THEN 4 * samples.north - local_sum ELSE 0,
   d_w |-> IF ~ctrl.first_line
           THEN (IF ~ctrl.first_in_line THEN 4 * samples.west - local_sum
                 ELSE 4 * samples.north - local_sum)
           ELSE 0,
   d_nw |-> IF ~ctrl.first_line
            THEN (IF ~ctrl.first_in_line THEN 4 * samples.north_west - local_sum
                  ELSE 4 * samples.north - local_sum)
            ELSE 0]

local_diff(ctrl, samples, column_oriented) ==
  local_diff_from(ctrl, samples,
                  IF ctrl.first_line /\ ctrl.first_in_line THEN 0
                  ELSE local_sum_terms(ctrl, samples, column_oriented))

RECURSIVE dot_sum(_, _, _)
dot_sum(diffs, weights, n) ==
  IF n = 0 THEN 0
  ELSE dot_sum(diffs, weights, n - 1) + diffs[n - 1] * weights[n - 1]

dot_product(diffs, weights) ==
  dot_sum(diffs, weights, Min(Cardinality(DOMAIN diffs), Cardinality(DOMAIN weights)))

\* C++ integer division of a non-negative value by 8 truncates as floor does
RECURSIVE init_weight_at(_, _)
init_weight_at(omega, i) ==
  IF i = 0 THEN (7 * Pow2(omega)) \div 8 ELSE init_weight_at(omega, i - 1) \div 8

\* a faulty seeding that runs the chain of eighths through every component
init_weights_all_chained(reduced, omega, components) ==
  [i \in 0..(components - 1) |-> init_weight_at(omega, i)]

init_weights(reduced, omega, components) ==
  LET p == IF reduced THEN components ELSE components - 3
  IN  [i \in 0..(components - 1) |->
         IF ~reduced /\ i >= Max(0, components - 3) THEN 0
         ELSE IF i < p THEN init_weight_at(omega, i)
         ELSE 0]

\* a faulty predictor that leaves the candidate unclipped
predictor_scaled_unclipped(inputs) ==
  IF inputs.ctrl.first_line /\ inputs.ctrl.first_in_line
  THEN (IF inputs.prev_band_sample >= 0 THEN Shl(inputs.prev_band_sample, 1) ELSE 0)
  ELSE Shr(mod_pow2(inputs.numerator + Shl(inputs.local_sum, inputs.omega),
                    inputs.rbits),
           inputs.omega + 1) + 1

\* result.scaled_pred of predictor
predictor_scaled(inputs) ==
  IF inputs.ctrl.first_line /\ inputs.ctrl.first_in_line
  THEN (IF inputs.prev_band_sample >= 0 THEN Shl(inputs.prev_band_sample, 1) ELSE 0)
  ELSE clip_int64(Shr(mod_pow2(inputs.numerator + Shl(inputs.local_sum, inputs.omega),
                               inputs.rbits),
                      inputs.omega + 1) + 1,
                  -Pow2(inputs.depth), Pow2(inputs.depth) - 1)

predictor_result(scaled_pred) ==
  [scaled_pred |-> scaled_pred, predicted |-> Shr(scaled_pred, 1)]

predictor(inputs) == predictor_result(predictor_scaled(inputs))

\* the least and the greatest int32_t, written without 2^31
Int32Min == (-Pow2(30)) - Pow2(30)
Int32Max == (Pow2(30) - 1) + Pow2(30)

\* mux of weight_update: the diff signed by the error, shifted and halved
weight_mux(diff, non_negative_error, shift) ==
  Shr((IF shift > 0
       THEN Shr(IF non_negative_error THEN diff ELSE -diff, shift)
       ELSE IF shift < 0
       THEN Shl(IF non_negative_error THEN diff ELSE -diff, -shift)
       ELSE (IF non_negative_error THEN diff ELSE -diff)) + 1, 1)

\* a faulty update that stores the sum unclipped
weight_component_unclipped(w, diff, non_negative_error, shift, limit) ==
  w + weight_mux(diff, non_negative_error, shift)

\* one component of weight_update: weights[i] after the update by diff.
\* limit is an int32_t.  When it is -2^31 the bounds handed to clip_int64 are
\* 2^31 and -2^31 - 1, min(max(updated, 2^31), -2^31 - 1) is -2^31 - 1
\* whatever updated is, and the cast to int32_t stores 2^31 - 1.
weight_component(w, diff, non_negative_error, shift, limit) ==
  IF limit = Int32Min THEN Int32Max
  ELSE clip_int64(w + weight_mux(diff, non_negative_error, shift), -limit, limit - 1)

\* the values 1 << (omega + 2) may take in an int: the shift itself up to
\* 31 places (1 << 31 is -2^31), and for 32 places and more, where the shift
\* is undefined, the count taken modulo 32 or every bit shifted out
weight_limits(omega) ==
  IF omega + 2 <= 31 THEN {shl_i32(1, omega + 2)}
  ELSE {Pow2((omega + 2) % 32), 0}

\* weight_update with the value its limit took
weight_update_with(weights, inputs, reduced, limit) ==
  IF Cardinality(DOMAIN weights) = 0 THEN weights
  ELSE IF inputs.ctrl.first_line /\ inputs.ctrl.first_in_line
  THEN init_weights(reduced, inputs.omega, Cardinality(DOMAIN weights))
  ELSE [i \in DOMAIN weights |->
          IF i \in DOMAIN inputs.diffs
          THEN weight_component(weights[i], inputs.diffs[i],
                                Shl(inputs.sample, 1) >= inputs.scaled_pred,
                                inputs.ctrl.scale_exponent + (inputs.depth - inputs.omega),
                                limit)
          ELSE weights[i]]

\* weight_update where the shift of its limit is defined (omega <= 29)
weight_update(weights, inputs, reduced) ==
  weight_update_with(weights, inputs, reduced, shl_i32(1, inputs.omega + 2))

(***************************************************************************)
(* modules.cpp: the residual mapper and its inverse.                       *)
(***************************************************************************)
\* a > static_cast<std::uint32_t>(b) for 0 <= a < 2^31 and -2^31 <= b < 2^31:
\* a negative b converts to a value of at least 2^31
u32_gt(a, b) == b >= 0 /\ a > b

\* a faulty residual_map whose delta beyond theta is one too large
residual_map_of_padded(pred_even, residual, theta) ==
  [delta |-> IF Abs(residual) > theta THEN Abs(residual) + theta + 1
             ELSE IF (pred_even /\ residual >= 0) \/ (~pred_even /\ residual <= 0)
             THEN 2 * Abs(residual)
             ELSE 2 * Abs(residual) - 1,
   residual |-> residual,
   theta |-> theta]

\* residual_map once pred_even, residual and theta are computed
residual_map_of(pred_even, residual, theta) ==
  [delta |-> IF Abs(residual) > theta THEN Abs(residual) + theta
             ELSE IF (pred_even /\ residual >= 0) \/ (~pred_even /\ residual <= 0)
             THEN 2 * Abs(residual)
             ELSE 2 * Abs(residual) - 1,
   residual |-> residual,
   theta |-> theta]

residual_map(inputs) ==
  residual_map_of(is_even(inputs.scaled_pred),
                  inputs.sample - Shr(inputs.scaled_pred, 1),
                  theta_from_pred(Shr(inputs.scaled_pred, 1), inputs.depth))

\* the residual of residual_unmap before the range check
unmap_signed(delta, pred_even, theta) ==
  IF u32_gt(delta, theta * 2)
  THEN (IF pred_even THEN delta - theta ELSE -(delta - theta))
  ELSE IF delta % 2 = 0
  THEN (IF pred_even THEN delta \div 2 ELSE -(delta \div 2))
  ELSE (IF pred_even THEN -((delta + 1) \div 2) ELSE (delta + 1) \div 2)

\* a faulty range check of residual_unmap that keeps the sign it is given
unmap_keep_sign(pred, residual, depth) == residual

\* the range check of residual_unmap: the sign is flipped when pred + residual
\* leaves [-2^(depth-1), 2^(depth-1) - 1]
unmap_resign(pred, residual, depth) ==
  IF pred + residual < -Pow2(depth - 1) \/ pred + residual > Pow2(depth - 1) - 1
  THEN -residual
  ELSE residual

residual_unmap(delta, scaled_pred, depth) ==
  unmap_resign(Shr(scaled_pred, 1),
               unmap_signed(delta, is_even(scaled_pred),
                            theta_from_pred(Shr(scaled_pred, 1), depth)),
               depth)

(***************************************************************************)
(* Ccsds123Codec.cpp: BitWriter over an owned Bitstream.  A writer is      *)
(* [sink, current_, filled_, bits_written_]; bits are 0 or 1.  history is  *)
(* not a member of the class: it records the arguments of write_bit in     *)
(* call order, for the properties that speak of the emitted bits.          *)
(***************************************************************************)
BitWriterInit ==
  [sink |-> <<>>, current_ |-> 0, filled_ |-> 0, bits_written_ |-> 0, history |-> <<>>]

flush_byte(w) ==
  [w EXCEPT !.sink = Append(w.sink, w.current_), !.current_ = 0, !.filled_ = 0]

\* write_bit after the bit is shifted into current_
write_bit_flush(w1) == IF w1.filled_ = 8 THEN flush_byte(w1) ELSE w1

write_bit(w, bit) ==
  write_bit_flush([w EXCEPT !.current_ = (2 * w.current_ + bit) % 256,
                            !.filled_ = w.filled_ + 1,
                            !.bits_written_ = w.bits_written_ + 1,
                            !.history = Append(w.history, bit)])

RECURSIVE write_bits_from(_, _, _, _)
write_bits_from(w, value, count, i) ==
  IF i >= count THEN w
  ELSE write_bits_from(write_bit(w, Shr(value, count - 1 - i) % 2), value, count, i + 1)

write_bits(w, value, count) == write_bits_from(w, value, count, 0)

RECURSIVE write_zeros(_, _)
write_zeros(w, n) == IF n <= 0 THEN w ELSE write_zeros(write_bit(w, 0), n - 1)

\* a faulty finish that flushes the last byte without shifting its bits up
finish_unshifted(w) == IF w.filled_ > 0 THEN flush_byte(w) ELSE w

finish(w) ==
  IF w.filled_ > 0
  THEN flush_byte([w EXCEPT !.current_ = Shl(w.current_, 8 - w.filled_) % 256])
  ELSE w

(***************************************************************************)
(* Ccsds123Codec.cpp: BitReader.  A reader is [bytes_, payload_bits_,      *)
(* consumed_bits_, offset_, current_, available_bits_]; a read returns     *)
(* [ok, bit or value, r], r being the reader after the read.               *)
(***************************************************************************)
BitReaderInit(bytes, payload_bits) ==
  [bytes_ |-> bytes, payload_bits_ |-> payload_bits, consumed_bits_ |-> 0,
   offset_ |-> 0, current_ |-> 0, available_bits_ |-> 0]

\* a faulty read_bit that does not look at the payload_bits budget
read_bit_unbudgeted(r) ==
  IF r.available_bits_ = 0 /\ r.offset_ >= Len(r.bytes_)
  THEN [ok |-> FALSE, bit |-> 0, r |-> r]
  ELSE [ok |-> TRUE,
        bit |-> (IF r.available_bits_ = 0 THEN r.bytes_[r.offset_ + 1]
                 ELSE r.current_) \div 128,
        r |-> [r EXCEPT
                 !.current_ = (2 * (IF r.available_bits_ = 0 THEN r.bytes_[r.offset_ + 1]
                                    ELSE r.current_)) % 256,
                 !.offset_ = IF r.available_bits_ = 0 THEN r.offset_ + 1 ELSE r.offset_,
                 !.available_bits_ = (IF r.available_bits_ = 0 THEN 8
                                      ELSE r.available_bits_) - 1,
                 !.consumed_bits_ = r.consumed_bits_ + 1]]

read_bit(r) ==
  IF r.consumed_bits_ >= r.payload_bits_ THEN [ok |-> FALSE, bit |-> 0, r |-> r]
  ELSE IF r.available_bits_ = 0 /\ r.offset_ >= Len(r.bytes_)
  THEN [ok |-> FALSE, bit |-> 0, r |-> r]
  ELSE LET r1 == IF r.available_bits_ = 0
                 THEN [r EXCEPT !.current_ = r.bytes_[r.offset_ + 1],
                                !.offset_ = r.offset_ + 1,
                                !.available_bits_ = 8]
                 ELSE r
       IN  [ok |-> TRUE,
            bit |-> r1.current_ \div 128,
            r |-> [r1 EXCEPT !.current_ = (2 * r1.current_) % 256,
                             !.available_bits_ = r1.available_bits_ - 1,
                             !.consumed_bits_ = r1.consumed_bits_ + 1]]

RECURSIVE read_bits_from(_, _, _, _)
read_bits_from(r, count, i, value) ==
  IF i >= count THEN [ok |-> TRUE, value |-> value, r |-> r]
  ELSE LET b == read_bit(r)
       IN  IF ~b.ok THEN [ok |-> FALSE, value |-> value, r |-> b.r]
           ELSE read_bits_from(b.r, count, i + 1, 2 * value + b.bit)

read_bits(r, count) == read_bits_from(r, count, 0, 0)

(***************************************************************************)
(* Ccsds123Codec.cpp: band state and parameter validation.                 *)
(***************************************************************************)
gather_samples(band, nx, x, y) ==
  LET north == IF y > 0 THEN band.prev_row[x] ELSE 0
  IN  [cur |-> band.curr_row[x],
       west |-> IF x > 0 THEN band.curr_row[x - 1] ELSE 0,
       north |-> north,
       north_west |-> IF x > 0 /\ y > 0 THEN band.prev_row[x - 1] ELSE 0,
       north_east |-> IF y > 0 /\ x + 1 < nx THEN band.prev_row[x + 1] ELSE north]

\* a faulty rotation that leaves the finished row in curr_row
swap_rows_uncleared(band) == [band EXCEPT !.prev_row = band.curr_row]

swap_rows(band) ==
  [band EXCEPT !.prev_row = band.curr_row,
               !.curr_row = [i \in DOMAIN band.curr_row |-> 0]]

\* std::invalid_argument of validate_params is the error kind InvalidParams
validate_params(p) ==
  IF p.NX <= 0 \/ p.NY <= 0 \/ p.NZ <= 0 THEN "InvalidParams"
  ELSE IF p.D <= 0 \/ p.D > 16 THEN "InvalidParams"
  ELSE IF p.P # 0 THEN "InvalidParams"
  ELSE IF p.reduced THEN "InvalidParams"
  ELSE IF p.local_sum # NeighborNarrow THEN "InvalidParams"
  ELSE IF p.theta # 0 THEN "InvalidParams"
  ELSE IF p.omega <= 0 \/ p.omega > 31 THEN "InvalidParams"
  ELSE IF p.register_bits <= 0 \/ p.register_bits > 64 THEN "InvalidParams"
  ELSE IF p.v_min > p.v_max THEN "InvalidParams"
  ELSE IF p.coder.u_max <= 0 \/ p.coder.u_max > 32 THEN "InvalidParams"
  ELSE IF p.coder.counter_size <= 0 \/ p.coder.counter_size > 16 THEN "InvalidParams"
  ELSE IF p.coder.initial_count_exponent < 0 \/ p.coder.initial_count_exponent > 16
       THEN "InvalidParams"
  ELSE IF p.coder.kz_prime < 0 \/ p.coder.kz_prime > 16 THEN "InvalidParams"
  ELSE "none"

mask_bits(bits) == IF bits = 0 THEN 0 ELSE Pow2(bits) - 1

create_band_states(p) ==
  LET components == p.P + (IF p.reduced THEN 0 ELSE 3)
  IN  [z \in 0..(p.NZ - 1) |->
         [prev_row |-> [i \in 0..(p.NX - 1) |-> 0],
          curr_row |-> [i \in 0..(p.NX - 1) |-> 0],
          weights |-> init_weights(p.reduced, p.omega, components)]]

make_predictor_inputs(p, ctrl, prev_band_sample, local_sum, numerator) ==
  [ctrl |-> ctrl, depth |-> p.D, omega |-> p.omega, rbits |-> p.register_bits,
   prev_band_sample |-> prev_band_sample, local_sum |-> local_sum,
   numerator |-> numerator]

(***************************************************************************)
(* Ccsds123Codec.cpp: the sample-adaptive Golomb coder.  A coder state is  *)
(* [accumulators_, counter_]; initial_accumulator_ and max_counter_ are    *)
(* functions of the Params.  The uint32 values stay below 2^31 within the  *)
(* bounds, so the casts to uint32 change nothing.                          *)
(***************************************************************************)
compute_rhs_part(counter) == Shr(49 * counter, 7)

compute_initial_accumulator(p) ==
  LET lhs == Shl(3, p.coder.kz_prime + 6)
      numerator == Shl(lhs - 49, p.coder.initial_count_exponent)
  IN  Shr(numerator, 7)

max_counter(p) == Pow2(p.coder.counter_size) - 1

CoderInit(p) == [accumulators_ |-> [z \in 0..(p.NZ - 1) |-> 0], counter_ |-> 0]

RECURSIVE select_k_loop(_, _, _, _, _)
select_k_loop(counter, rhs, i, max_k, selected) ==
  IF i > max_k THEN selected
  ELSE select_k_loop(counter, rhs, i + 1, max_k,
                     IF Shl(counter, i) <= rhs THEN i ELSE selected)

\* SampleAdaptiveGolombEncoder::select_k
enc_select_k(counter, rhs, depth) ==
  IF depth <= 1 THEN 0
  ELSE IF counter = 0 THEN (IF depth - 1 > 0 THEN depth - 2 ELSE 0)
  ELSE IF Shl(counter, 1) > rhs THEN 0
  ELSE select_k_loop(counter, rhs, 1, Max(0, depth - 2), 0)

\* SampleAdaptiveGolombDecoder::select_k
dec_select_k(counter, rhs, depth) ==
  IF depth <= 1 THEN 0
  ELSE IF counter = 0 THEN (IF depth - 1 > 0 THEN depth - 2 ELSE 0)
  ELSE IF Shl(counter, 1) > rhs THEN 0
  ELSE select_k_loop(counter, rhs, 1, Max(0, depth - 2), 0)

\* a faulty emit_code that escapes only above u_max
emit_code_of_late_escape(w, value, u, k, p) ==
  IF u > p.coder.u_max
  THEN write_bits(write_zeros(w, p.coder.u_max), value, p.D)
  ELSE IF k > 0
  THEN write_bits(write_bit(write_zeros(w, u), 1), value % Pow2(k), k)
  ELSE write_bit(write_zeros(w, u), 1)

\* the codeword of emit_code for the low D bits of delta (value) and its
\* quotient u
emit_code_of(w, value, u, k, p) ==
  IF u >= p.coder.u_max
  THEN write_bits(write_zeros(w, p.coder.u_max), value, p.D)
  ELSE IF k > 0
  THEN write_bits(write_bit(write_zeros(w, u), 1), value % Pow2(k), k)
  ELSE write_bit(write_zeros(w, u), 1)

emit_code(w, delta, k, p) ==
  emit_code_of(w, delta % Pow2(p.D),
               IF k >= 32 THEN 0 ELSE Shr(delta % Pow2(p.D), k), k, p)

update_accumulator(acc, counter_pre, delta, first_sample, p) ==
  IF first_sample THEN compute_initial_accumulator(p)
  ELSE IF counter_pre < max_counter(p) THEN acc + delta
  ELSE Shr(acc + delta + 1, 1)

\* a faulty update that counts every band of a pixel
update_counter_every_band(ctrl, z, counter_pre, p) ==
  IF ctrl.first_line /\ ctrl.first_in_line THEN Pow2(p.coder.initial_count_exponent)
  ELSE IF counter_pre < max_counter(p) THEN counter_pre + 1
  ELSE Shr(counter_pre + 1, 1)

update_counter(ctrl, z, counter_pre, p) ==
  IF ctrl.first_line /\ ctrl.first_in_line THEN Pow2(p.coder.initial_count_exponent)
  ELSE IF z >= p.NZ - 1
  THEN (IF counter_pre < max_counter(p) THEN counter_pre + 1
        ELSE Shr(counter_pre + 1, 1))
  ELSE counter_pre

\* the accumulator and counter updates that end encode_sample and decode_sample
coder_update(coder, ctrl, z, delta, p) ==
  [accumulators_ |->
     [coder.accumulators_ EXCEPT
        ![z] = update_accumulator(coder.accumulators_[z], coder.counter_, delta,
                                  ctrl.first_line /\ ctrl.first_in_line, p)],
   counter_ |-> update_counter(ctrl, z, coder.counter_, p)]

\* a faulty encode_sample that sends the first sample of a band through
\* emit_code like every other sample
encode_sample_always_coded(coder, ctrl, z, delta, w, p, k) ==
  [coder |-> coder_update(coder, ctrl, z, delta, p),
   writer |-> emit_code(w, delta, k, p),
   k |-> k]

\* encode_sample once k is selected
encode_sample_with(coder, ctrl, z, delta, w, p, k) ==
  [coder |-> coder_update(coder, ctrl, z, delta, p),
   writer |-> IF ctrl.first_line /\ ctrl.first_in_line
              THEN write_bits(w, delta % Pow2(p.D), p.D)
              ELSE emit_code(w, delta, k, p),
   k |-> k]

\* returns the coder and the writer after the sample, and the k it selected
encode_sample(coder, ctrl, z, delta, w, p) ==
  encode_sample_with(coder, ctrl, z, delta, w, p,
                     enc_select_k(coder.counter_,
                                  coder.accumulators_[z] + compute_rhs_part(coder.counter_),
                                  p.D))

\* read_bits_checked: no read at all for a count of 0
read_bits_checked(r, count) ==
  IF count = 0 THEN [ok |-> TRUE, value |-> 0, r |-> r] ELSE read_bits(r, count)

RECURSIVE read_unary_from(_, _, _)
read_unary_from(r, u_max, zeros) ==
  IF zeros >= u_max THEN [ok |-> TRUE, value |-> zeros, r |-> r]
  ELSE LET b == read_bit(r)
       IN  IF ~b.ok THEN [ok |-> FALSE, value |-> zeros, r |-> b.r]
           ELSE IF b.bit = 1 THEN [ok |-> TRUE, value |-> zeros, r |-> b.r]
           ELSE read_unary_from(b.r, u_max, zeros + 1)

read_unary_limited(r, p) == read_unary_from(r, p.coder.u_max, 0)

\* the value of a length-limited codeword from its unary part u and its
\* k-bit remainder
join_code(u, k, rem) ==
  [ok |-> rem.ok, value |-> Shl(u, k) + rem.value, r |-> rem.r]

\* decode_sample after read_unary_limited returned un
read_code(un, k, p) ==
  IF ~un.ok THEN un
  ELSE IF un.value >= p.coder.u_max THEN read_bits_checked(un.r, p.D)
  ELSE join_code(un.value, k,
                 IF k = 0 THEN [ok |-> TRUE, value |-> 0, r |-> un.r]
                 ELSE read_bits_checked(un.r, k))

\* decode_sample once k is selected and the mapped value is read
decode_sample_with(coder, ctrl, z, p, k, got) ==
  IF ~got.ok
  THEN [ok |-> FALSE, delta |-> 0, coder |-> coder, reader |-> got.r, k |-> k]
  ELSE [ok |-> TRUE, delta |-> got.value,
        coder |-> coder_update(coder, ctrl, z, got.value, p),
        reader |-> got.r, k |-> k]

\* decode_sample once k is selected
decode_sample_k(coder, r, ctrl, z, p, k) ==
  decode_sample_with(coder, ctrl, z, p, k,
                     IF ctrl.first_line /\ ctrl.first_in_line
                     THEN read_bits_checked(r, p.D)
                     ELSE read_code(read_unary_limited(r, p), k, p))

\* returns [ok, delta, coder, reader, k]; ok = FALSE is the std::runtime_error
\* "Unexpected end of bitstream", which leaves the coder as it was
decode_sample(coder, r, ctrl, z, p) ==
  decode_sample_k(coder, r, ctrl, z, p,
                  dec_select_k(coder.counter_,
                               coder.accumulators_[z] + compute_rhs_part(coder.counter_),
                               p.D))

(***************************************************************************)
(* Ccsds123Codec.cpp: the container framer.  A container is a sequence of  *)
(* bytes; header fields are little-endian at the offsets of the packed     *)
(* HeaderLayoutV2 and HeaderLayoutV3.                                      *)
(***************************************************************************)
\* static_cast<std::uint16_t>(v) and the bit pattern of static_cast<std::int16_t>(v)
U16(v) == v % 65536

LE16(v) == <<v % 256, (v \div 256) % 256>>

\* static_cast<std::uint32_t>(v) of a value below 2^31
LE32(v) == <<v % 256, (v \div 256) % 256, (v \div 65536) % 256, (v \div 16777216) % 256>>

RdU16(bytes, off) == bytes[off + 1] + 256 * bytes[off + 2]

RdI16(bytes, off) ==
  LET u == RdU16(bytes, off) IN IF u >= 32768 THEN u - 65536 ELSE u

RdU32(bytes, off) ==
  bytes[off + 1] + 256 * bytes[off + 2] + 65536 * bytes[off + 3] + 16777216 * bytes[off + 4]

make_header(p, payload_bits) ==
  kMagic \o LE16(kVersionV3)
    \o LE16(U16(p.NX)) \o LE16(U16(p.NY)) \o LE16(U16(p.NZ))
    \o LE16(U16(p.D)) \o LE16(U16(p.P)) \o LE16(U16(p.local_sum))
    \o LE16((IF p.reduced THEN kFlagReduced ELSE 0)
            + (IF p.column_oriented THEN kFlagColumnOriented ELSE 0))
    \o LE16(U16(p.v_min)) \o LE16(U16(p.v_max)) \o LE16(U16(p.omega))
    \o LE16(U16(p.register_bits)) \o LE16(U16(p.tinc_log))
    \o LE16(U16(p.coder.u_max)) \o LE16(U16(p.coder.counter_size))
    \o LE16(U16(p.coder.initial_count_exponent)) \o LE16(U16(p.coder.kz_prime))
    \o LE32(payload_bits) \o LE32(0)

\* a value-initialised Params (the member initialisers of Ccsds123Codec.hpp)
DefaultParams ==
  [NX |-> 0, NY |-> 0, NZ |-> 0, D |-> 0, P |-> 0,
   reduced |-> FALSE, column_oriented |-> FALSE, local_sum |-> NeighborNarrow,
   theta |-> 0, omega |-> 19, register_bits |-> 64, v_min |-> -1, v_max |-> 3,
   tinc_log |-> 6,
   coder |-> [u_max |-> 18, counter_size |-> 6, initial_count_exponent |-> 1,
              kz_prime |-> 0]]

NoHeaderInfo == [err |-> "none", params |-> DefaultParams, payload_bits |-> 0, version |-> 0]

\* parse_header on a version-2 header: the fields of HeaderLayoutV2 and the
\* historical defaults for the rest
parse_header_v2(bytes) ==
  [err |-> "none",
   params |->
     [DefaultParams EXCEPT
        !.NX = RdU16(bytes, 6), !.NY = RdU16(bytes, 8),
        !.NZ = RdU16(bytes, 10), !.D = RdU16(bytes, 12),
        !.P = RdU16(bytes, 14),
        !.local_sum = IF RdU16(bytes, 16) # 0 THEN NeighborNarrow ELSE NeighborWide,
        !.v_min = -6, !.v_max = 9, !.omega = 19,
        !.register_bits = 64, !.tinc_log = 4,
        !.coder = [u_max |-> 9, counter_size |-> 8,
                   initial_count_exponent |-> 6, kz_prime |-> 8]],
   payload_bits |-> RdU32(bytes, 18),
   version |-> kVersionV2]

\* parse_header on a version-3 header: the fields of HeaderLayoutV3
parse_header_v3(bytes) ==
  [err |-> "none",
   params |->
     [DefaultParams EXCEPT
        !.NX = RdU16(bytes, 6), !.NY = RdU16(bytes, 8),
        !.NZ = RdU16(bytes, 10), !.D = RdU16(bytes, 12),
        !.P = RdU16(bytes, 14), !.local_sum = RdU16(bytes, 16),
        !.reduced = (RdU16(bytes, 18) % 2) # 0,
        !.column_oriented = ((RdU16(bytes, 18) \div 2) % 2) # 0,
        !.v_min = RdI16(bytes, 20), !.v_max = RdI16(bytes, 22),
        !.omega = RdI16(bytes, 24), !.register_bits = RdI16(bytes, 26),
        !.tinc_log = RdI16(bytes, 28),
        !.coder = [u_max |-> RdU16(bytes, 30),
                   counter_size |-> RdU16(bytes, 32),
                   initial_count_exponent |-> RdU16(bytes, 34),
                   kz_prime |-> RdU16(bytes, 36)]],
   payload_bits |-> RdU32(bytes, 38),
   version |-> kVersionV3]

\* a faulty parse_header that asks for the 46 bytes of a version-3 header
\* before it looks at the magic and the version
parse_header_size_first(bytes) ==
  IF Len(bytes) < SizeofHeaderLayoutV3
  THEN [NoHeaderInfo EXCEPT !.err = "ContainerTooSmall"]
  ELSE IF SubSeq(bytes, 1, 4) # kMagic
  THEN [NoHeaderInfo EXCEPT !.err = "InvalidContainer"]
  ELSE IF RdU16(bytes, 4) = kVersionV2 THEN parse_header_v2(bytes)
  ELSE IF RdU16(bytes, 4) # kVersionV3
  THEN [NoHeaderInfo EXCEPT !.err = "InvalidContainer", !.version = RdU16(bytes, 4)]
  ELSE parse_header_v3(bytes)

\* the std::runtime_error messages of parse_header, by error kind:
\* "Container too small..." is ContainerTooSmall, "Invalid container magic"
\* and "Unsupported container version" are InvalidContainer
parse_header(bytes) ==
  IF Len(bytes) < SizeofHeaderLayoutV2
  THEN [NoHeaderInfo EXCEPT !.err = "ContainerTooSmall"]
  ELSE IF SubSeq(bytes, 1, 4) # kMagic
  THEN [NoHeaderInfo EXCEPT !.err = "InvalidContainer"]
  ELSE IF RdU16(bytes, 4) = kVersionV2 THEN parse_header_v2(bytes)
  ELSE IF RdU16(bytes, 4) # kVersionV3
  THEN [NoHeaderInfo EXCEPT !.err = "InvalidContainer", !.version = RdU16(bytes, 4)]
  ELSE IF Len(bytes) < SizeofHeaderLayoutV3
  THEN [NoHeaderInfo EXCEPT !.err = "ContainerTooSmall", !.version = RdU16(bytes, 4)]
  ELSE parse_header_v3(bytes)

\* a faulty read_summary that caps payload_bits by the payload bytes it is
\* given
read_summary_capped(container_bytes) ==
  [err |-> parse_header(container_bytes).err,
   params |-> parse_header(container_bytes).params,
   payload_bits |->
     Min(parse_header(container_bytes).payload_bits,
         8 * (Len(container_bytes)
                - (IF parse_header(container_bytes).version = kVersionV3
                   THEN SizeofHeaderLayoutV3 ELSE SizeofHeaderLayoutV2)))]

\* ContainerSummary, or the error parse_header threw
read_summary(container_bytes) ==
  LET info == parse_header(container_bytes)
  IN  [err |-> info.err, params |-> info.params, payload_bits |-> info.payload_bits]

(***************************************************************************)
(* Ccsds123Codec.hpp: Bitstream.  [external, capacity, bytes]: bytes is    *)
(* what bytes() exposes, so size() is Len(bytes); capacity is the size of  *)
(* the external region and is unused by an owned stream.                   *)
(***************************************************************************)
OwnedBitstream == [external |-> FALSE, capacity |-> 0, bytes |-> <<>>]

ExternalBitstream(capacity) == [external |-> TRUE, capacity |-> capacity, bytes |-> <<>>]

bs_clear(bs) == [bs EXCEPT !.bytes = <<>>]

\* a faulty resize that does not compare the new size with the capacity
bs_resize_fill_unchecked(bs, content) ==
  [ok |-> TRUE, bs |-> [bs EXCEPT !.bytes = content]]

\* resize followed by the memcpy of content over the whole new size; on an
\* external region too small, detail::bitstream_overflow throws (host build)
\* before external_size_ is assigned
bs_resize_fill(bs, content) ==
  IF bs.external /\ Len(content) > bs.capacity
  THEN [ok |-> FALSE, bs |-> bs]
  ELSE [ok |-> TRUE, bs |-> [bs EXCEPT !.bytes = content]]

(***************************************************************************)
(* Ccsds123Codec.cpp: one iteration of the loop of encode_payload and of   *)
(* decode_payload.  last keeps the locals of the latest iteration.         *)
(***************************************************************************)
NoCtrl == [first_line |-> FALSE, first_in_line |-> FALSE, last_in_line |-> FALSE,
           last |-> FALSE, scale_exponent |-> 0]

NoLast == [x |-> -1, y |-> -1, z |-> -1, ctrl |-> NoCtrl, scaled_pred |-> 0,
           predicted |-> 0, sample_centered |-> 0, residual |-> 0, delta |-> 0,
           k |-> 0, bits_before |-> 0]

EncIdle == [s |-> 0, control |-> ControlInit, bands |-> <<>>,
            coder |-> [accumulators_ |-> <<>>, counter_ |-> 0],
            writer |-> BitWriterInit, last |-> NoLast]

DecIdle == [effective |-> DefaultParams, s |-> 0, control |-> ControlInit,
            bands |-> <<>>, coder |-> [accumulators_ |-> <<>>, counter_ |-> 0],
            reader |-> BitReaderInit(<<>>, 0), last |-> NoLast]

Total(p) == p.NX * p.NY * p.NZ

encode_payload_begin(p) ==
  [s |-> 0, control |-> ControlInit, bands |-> create_band_states(p),
   coder |-> CoderInit(p), writer |-> BitWriterInit, last |-> NoLast]

\* a faulty diffs array whose first entry is the central difference, which
\* is taken from the sample being coded
diffs_of_central(p, local) ==
  [i \in 0..(p.P + 2) |->
     IF i = 0 THEN local.d_c ELSE IF i = 1 THEN local.d_w
     ELSE IF i = 2 THEN local.d_nw ELSE 0]

diffs_of(p, local) ==
  [i \in 0..(p.P + 2) |->
     IF i = 0 THEN local.d_n ELSE IF i = 1 THEN local.d_w
     ELSE IF i = 2 THEN local.d_nw ELSE 0]

store_sample(band, weights, p, x, sample_centered) ==
  LET b1 == [band EXCEPT !.weights = weights, !.curr_row[x] = sample_centered]
  IN  IF x = p.NX - 1 THEN swap_rows(b1) ELSE b1

\* the position of an iteration: the control signals, the band z, the pixel
\* (x, y) and the index of the sample in the band-sequential array
locate_from(p, ctrl_out, pixel) ==
  [ctrl |-> ctrl_out.ctrl, z |-> ctrl_out.z,
   x |-> pixel % p.NX, y |-> pixel \div p.NX,
   index |-> ctrl_out.z * (p.NX * p.NY) + pixel]

locate(p, control, s) ==
  locate_from(p, step_output(ControlConfig(p), control), s \div p.NZ)

\* the prediction of an iteration from the local differences
predict_from(p, ctrl, weights, local) ==
  predictor(make_predictor_inputs(p, ctrl, -1, local.local_sum,
                                  dot_product(diffs_of(p, local), weights)))

\* local_diff, the diffs array and predictor: [diffs, pred]
predict(p, ctrl, weights, neighborhood) ==
  [diffs |-> diffs_of(p, local_diff(ctrl, neighborhood, FALSE)),
   pred |-> predict_from(p, ctrl, weights, local_diff(ctrl, neighborhood, FALSE))]

\* the WeightUpdateInputs of an iteration
make_wu_inputs(p, ctrl, scaled_pred, sample_centered, diffs) ==
  [ctrl |-> ctrl, depth |-> p.D, omega |-> p.omega, v_min |-> p.v_min,
   v_max |-> p.v_max, scaled_pred |-> scaled_pred, sample |-> sample_centered,
   diffs |-> diffs]

\* the locals of encode_payload after the iteration
enc_step_result(p, e, at, sample_centered, pr, mapped, coded, weights) ==
  [s |-> e.s + 1,
   control |-> step_advance(ControlConfig(p), e.control),
   bands |-> [e.bands EXCEPT
                ![at.z] = store_sample(e.bands[at.z], weights, p, at.x, sample_centered)],
   coder |-> coded.coder,
   writer |-> coded.writer,
   last |-> [x |-> at.x, y |-> at.y, z |-> at.z, ctrl |-> at.ctrl,
             scaled_pred |-> pr.pred.scaled_pred, predicted |-> pr.pred.predicted,
             sample_centered |-> sample_centered, residual |-> mapped.residual,
             delta |-> mapped.delta, k |-> coded.k,
             bits_before |-> e.writer.bits_written_]]

\* encode_payload from residual_map on
enc_step_mapped(p, e, at, sample_centered, pr, mapped) ==
  enc_step_result(p, e, at, sample_centered, pr, mapped,
                  encode_sample(e.coder, at.ctrl, at.z, mapped.delta, e.writer, p),
                  weight_update(e.bands[at.z].weights,
                                make_wu_inputs(p, at.ctrl, pr.pred.scaled_pred,
                                               sample_centered, pr.diffs),
                                p.reduced))

\* encode_payload from gather_samples on
enc_step_sample(p, e, at, sample_centered, pr) ==
  enc_step_mapped(p, e, at, sample_centered, pr,
                  residual_map([ctrl |-> at.ctrl, depth |-> p.D,
                                sample |-> sample_centered,
                                scaled_pred |-> pr.pred.scaled_pred]))

enc_step_at(p, e, at, sample_centered) ==
  enc_step_sample(p, e, at, sample_centered,
                  predict(p, at.ctrl, e.bands[at.z].weights,
                          [gather_samples(e.bands[at.z], p.NX, at.x, at.y)
                             EXCEPT !.cur = sample_centered]))

enc_step_located(p, inp, e, at) ==
  enc_step_at(p, e, at, inp[at.index] - Pow2(p.D - 1))

encode_payload_step(p, inp, e) == enc_step_located(p, inp, e, locate(p, e.control, e.s))

decode_payload_begin(payload, p, payload_bits) ==
  [effective |-> p, s |-> 0, control |-> ControlInit, bands |-> create_band_states(p),
   coder |-> CoderInit(p), reader |-> BitReaderInit(payload, payload_bits),
   last |-> NoLast]

\* a faulty iteration that stores the sample without the clamp
dec_step_result_unclamped(d, at, pr, got, residual, sample_centered, weights) ==
  [ok |-> TRUE,
   dec |-> [effective |-> d.effective,
            s |-> d.s + 1,
            control |-> step_advance(ControlConfig(d.effective), d.control),
            bands |-> [d.bands EXCEPT
                         ![at.z] = store_sample(d.bands[at.z], weights, d.effective,
                                                at.x, sample_centered)],
            coder |-> got.coder,
            reader |-> got.reader,
            last |-> [x |-> at.x, y |-> at.y, z |-> at.z, ctrl |-> at.ctrl,
                      scaled_pred |-> pr.pred.scaled_pred,
                      predicted |-> pr.pred.predicted,
                      sample_centered |-> sample_centered, residual |-> residual,
                      delta |-> got.delta, k |-> got.k,
                      bits_before |-> d.reader.consumed_bits_]],
   index |-> at.index,
   sample |-> sample_centered + Pow2(d.effective.D - 1)]

\* the locals of decode_payload after an iteration that decoded a sample
dec_step_result(d, at, pr, got, residual, sample_centered, weights) ==
  [ok |-> TRUE,
   dec |-> [effective |-> d.effective,
            s |-> d.s + 1,
            control |-> step_advance(ControlConfig(d.effective), d.control),
            bands |-> [d.bands EXCEPT
                         ![at.z] = store_sample(d.bands[at.z], weights, d.effective,
                                                at.x, sample_centered)],
            coder |-> got.coder,
            reader |-> got.reader,
            last |-> [x |-> at.x, y |-> at.y, z |-> at.z, ctrl |-> at.ctrl,
                      scaled_pred |-> pr.pred.scaled_pred,
                      predicted |-> pr.pred.predicted,
                      sample_centered |-> sample_centered, residual |-> residual,
                      delta |-> got.delta, k |-> got.k,
                      bits_before |-> d.reader.consumed_bits_]],
   index |-> at.index,
   sample |-> clip_int64(sample_centered + Pow2(d.effective.D - 1), 0,
                         Pow2(d.effective.D) - 1)]

\* decode_payload from sample_centered = predicted + residual on
dec_step_sample(d, at, pr, got, residual, sample_centered) ==
  dec_step_result(d, at, pr, got, residual, sample_centered,
                  weight_update(d.bands[at.z].weights,
                                make_wu_inputs(d.effective, at.ctrl, pr.pred.scaled_pred,
                                               sample_centered, pr.diffs),
                                d.effective.reduced))

dec_step_residual(d, at, pr, got, residual) ==
  dec_step_sample(d, at, pr, got, residual, pr.pred.predicted + residual)

\* decode_payload after decode_sample: its exception leaves the iteration
\* before anything is assigned
dec_step_got(d, at, pr, got) ==
  IF ~got.ok
  THEN [ok |-> FALSE,
        dec |-> [d EXCEPT !.control = step_advance(ControlConfig(d.effective), d.control),
                          !.reader = got.reader],
        index |-> at.index, sample |-> 0]
  ELSE dec_step_residual(d, at, pr, got,
                         residual_unmap(got.delta, pr.pred.scaled_pred, d.effective.D))

dec_step_at(d, at) ==
  dec_step_got(d, at,
               predict(d.effective, at.ctrl, d.bands[at.z].weights,
                       [gather_samples(d.bands[at.z], d.effective.NX, at.x, at.y)
                          EXCEPT !.cur = 0]),
               decode_sample(d.coder, d.reader, at.ctrl, at.z, d.effective))

\* returns [ok, dec, index, sample]: the locals after the iteration and the
\* element of the output span it assigns; ok = FALSE is the exception of
\* decode_sample
decode_payload_step(d) == dec_step_at(d, locate(d.effective, d.control, d.s))

(***************************************************************************)
(* Ccsds123Codec.cpp: encode and decode.  The std::invalid_argument        *)
(* "Input size does not match dimensions" and "Output span size does not   *)
(* match header dimensions" are the error kind InputSizeMismatch;          *)
(* "Bitstream too small for header" is ContainerTooSmall; the              *)
(* std::runtime_error of the decoder's reads is TruncatedPayload and that  *)
(* of detail::bitstream_overflow is BufferOverflow.                        *)
(***************************************************************************)
\* the checks of encode before encode_payload
encode_begin(p, inp) ==
  IF validate_params(p) # "none" THEN validate_params(p)
  ELSE IF Cardinality(DOMAIN inp) # Total(p) THEN "InputSizeMismatch"
  ELSE "none"

\* the end of encode_payload and of encode: finish, make_header, clear,
\* resize and the two memcpy
encode_end(p, w, bs) ==
  bs_resize_fill(bs_clear(bs), make_header(p, finish(w).bits_written_) \o finish(w).sink)

effective_params(p, info) ==
  [p EXCEPT !.NX = info.params.NX, !.NY = info.params.NY, !.NZ = info.params.NZ,
            !.D = info.params.D, !.P = info.params.P,
            !.local_sum = info.params.local_sum, !.reduced = info.params.reduced,
            !.column_oriented = info.params.column_oriented,
            !.v_min = info.params.v_min, !.v_max = info.params.v_max,
            !.omega = info.params.omega, !.register_bits = info.params.register_bits,
            !.tinc_log = info.params.tinc_log, !.coder = info.params.coder]

\* a faulty decode that takes the payload to be the last ceil(payload_bits/8)
\* bytes of the container
decode_checked_tail(bytes, info, effective, output_size) ==
  IF validate_params(effective) # "none"
  THEN [err |-> validate_params(effective), dec |-> DecIdle]
  ELSE IF output_size # Total(effective)
  THEN [err |-> "InputSizeMismatch", dec |-> DecIdle]
  ELSE [err |-> "none",
        dec |-> decode_payload_begin(
                  SubSeq(bytes,
                         Max(1, Len(bytes) - ((info.payload_bits + 7) \div 8) + 1),
                         Len(bytes)),
                  effective, info.payload_bits)]

\* decode after parse_header, with the effective parameters
decode_checked(bytes, info, effective, output_size) ==
  IF validate_params(effective) # "none"
  THEN [err |-> validate_params(effective), dec |-> DecIdle]
  ELSE IF output_size # Total(effective)
  THEN [err |-> "InputSizeMismatch", dec |-> DecIdle]
  ELSE [err |-> "none",
        dec |-> decode_payload_begin(
                  SubSeq(bytes,
                         (IF info.version = kVersionV3 THEN SizeofHeaderLayoutV3
                          ELSE SizeofHeaderLayoutV2) + 1,
                         Len(bytes)),
                  effective, info.payload_bits)]

decode_parsed(bytes, p, output_size, info) ==
  IF info.err # "none" THEN [err |-> info.err, dec |-> DecIdle]
  ELSE decode_checked(bytes, info, effective_params(p, info), output_size)

\* decode up to the call of decode_payload: [err, dec]
decode_begin(bytes, p, output_size) ==
  IF Len(bytes) < SizeofHeaderLayoutV2 THEN [err |-> "ContainerTooSmall", dec |-> DecIdle]
  ELSE decode_parsed(bytes, p, output_size, parse_header(bytes))

(***************************************************************************)
(* The inputs of the model.                                                *)
(***************************************************************************)
\* predictor and coder settings: omega, R, v_min, v_max, t_inc, u_max, gamma,
\* gamma0, k'_z
Profile(omega, rbits, v_min, v_max, tinc_log, u_max, gamma, gamma0, kz) ==
  [omega |-> omega, register_bits |-> rbits, v_min |-> v_min, v_max |-> v_max,
   tinc_log |-> tinc_log,
   coder |-> [u_max |-> u_max, counter_size |-> gamma,
              initial_count_exponent |-> gamma0, kz_prime |-> kz]]

\* settings the 16-bit header fields hold
NarrowProfiles ==
  {Profile(1, 64, -1, 1, 0, 2, 1, 0, 0),
   Profile(3, 4, 0, 0, 1, 1, 2, 1, 1),
   Profile(2, 6, -2, 3, 1, 3, 3, 3, 0)}

\* settings validate_params accepts whose v_max exceeds 16 bits
WideProfiles == {Profile(1, 4, 0, 65536, 0, 1, 1, 0, 0)}

\* the settings of the images sent through the altering channel
ChannelProfiles ==
  {Profile(1, 64, -1, 1, 0, 2, 1, 0, 0), Profile(2, 6, -2, 3, 1, 3, 3, 3, 0)}

MakeParams(nx, ny, nz, d, prof) ==
  [DefaultParams EXCEPT
     !.NX = nx, !.NY = ny, !.NZ = nz, !.D = d,
     !.omega = prof.omega, !.register_bits = prof.register_bits,
     !.v_min = prof.v_min, !.v_max = prof.v_max, !.tinc_log = prof.tinc_log,
     !.coder = prof.coder]

Shapes(max_bits) ==
  {sh \in (1..MaxNX) \X (1..MaxNY) \X (1..MaxNZ) \X (1..MaxD) :
     sh[1] * sh[2] * sh[3] * sh[4] <= max_bits}

Images(n, d) == [0..(n - 1) -> 0..(Pow2(d) - 1)]

\* the container reaches decode as encode left it
NoChannel == [kind |-> "none", magic |-> 0, version |-> kVersionV3, drop_bits |-> 0,
              cut |-> -1, extra |-> <<>>]

\* no module function is driven alone
NoProbe == [kind |-> "none"]

FreshOutput(p) == [i \in 0..(Total(p) - 1) |-> Unwritten]

InitWith(shapes, profiles, streams) ==
  \E sh \in shapes, prof \in profiles :
    /\ params = MakeParams(sh[1], sh[2], sh[3], sh[4], prof)
    /\ input \in Images(sh[1] * sh[2] * sh[3], sh[4])
    /\ out \in streams
    /\ pc = "init"
    /\ err = "none"
    /\ enc = EncIdle
    /\ dec = DecIdle
    /\ output = FreshOutput(params)
    /\ sent = <<>>
    /\ channel = NoChannel
    /\ probe = NoProbe

(***************************************************************************)
(* The driver: encode(input, out, params), then decode(out, output,        *)
(* params), one loop iteration per step.                                   *)
(***************************************************************************)
EncodeBeginWith(e) ==
  IF e = "none"
  THEN pc' = "encode" /\ enc' = encode_payload_begin(params) /\ err' = err
  ELSE pc' = "failed" /\ enc' = enc /\ err' = e

EncodeBegin ==
  /\ pc = "init"
  /\ EncodeBeginWith(encode_begin(params, input))
  /\ UNCHANGED <<params, input, out, dec, output, sent, channel, probe>>

EncodeSample ==
  /\ pc = "encode"
  /\ enc.s < Total(params)
  /\ enc' = encode_payload_step(params, input, enc)
  /\ UNCHANGED <<params, input, out, pc, err, dec, output, sent, channel, probe>>

EncodeFinishWith(r) ==
  /\ out' = r.bs
  /\ IF r.ok
     THEN pc' = "encoded" /\ err' = err /\ sent' = r.bs.bytes
     ELSE pc' = "failed" /\ err' = "BufferOverflow" /\ sent' = sent

EncodeFinish ==
  /\ pc = "encode"
  /\ enc.s >= Total(params)
  /\ enc' = [enc EXCEPT !.writer = finish(enc.writer)]
  /\ EncodeFinishWith(encode_end(params, enc.writer, out))
  /\ UNCHANGED <<params, input, dec, output, channel, probe>>

DecodeBeginWith(r) ==
  /\ dec' = r.dec
  /\ err' = r.err
  /\ pc' = IF r.err = "none" THEN "decode" ELSE "failed"

DecodeBegin ==
  /\ pc \in {"encoded", "delivered"}
  /\ DecodeBeginWith(decode_begin(out.bytes, params, Cardinality(DOMAIN output)))
  /\ UNCHANGED <<params, input, out, enc, output, sent, channel, probe>>

DecodeSampleWith(r) ==
  /\ dec' = r.dec
  /\ IF r.ok
     THEN /\ output' = [output EXCEPT ![r.index] = r.sample]
          /\ err' = err
          /\ pc' = IF r.dec.s >= Total(r.dec.effective) THEN "done" ELSE "decode"
     ELSE /\ output' = output
          /\ err' = "TruncatedPayload"
          /\ pc' = "failed"

DecodeSample ==
  /\ pc = "decode"
  /\ dec.s < Total(dec.effective)
  /\ DecodeSampleWith(decode_payload_step(dec))
  /\ UNCHANGED <<params, input, out, enc, sent, channel, probe>>

(***************************************************************************)
(* decode as one call: decode_begin, then the loop of decode_payload to    *)
(* its end or to the first exception.  Returns [err, output].              *)
(***************************************************************************)
RECURSIVE decode_payload_run(_, _)
RECURSIVE decode_payload_next(_, _)
decode_payload_run(d, outp) ==
  IF d.s >= Total(d.effective) THEN [err |-> "none", output |-> outp]
  ELSE decode_payload_next(decode_payload_step(d), outp)

decode_payload_next(r, outp) ==
  IF ~r.ok THEN [err |-> "TruncatedPayload", output |-> outp]
  ELSE decode_payload_run(r.dec, [outp EXCEPT ![r.index] = r.sample])

decode_from(b, outp) ==
  IF b.err # "none" THEN [err |-> b.err, output |-> outp]
  ELSE decode_payload_run(b.dec, outp)

decode(bytes, outp, p) ==
  decode_from(decode_begin(bytes, p, Cardinality(DOMAIN outp)), outp)

(***************************************************************************)
(* The channel between encode and decode: the container is stored and read *)
(* back, and may come back longer, shorter or with header bytes changed.   *)
(***************************************************************************)
\* bytes that may follow a container
ExtraBytes == {<<0>>, <<255>>, <<128, 1>>}

\* lengths a container may be cut to in front of or inside its header
HeaderCuts == {-1, 0, 3, 6, 29, 30, 45}

\* values the version field may be overwritten with
HeaderVersions == {0, kVersionV2, kVersionV3, 4}

\* c with payload_bits (offset 38 of HeaderLayoutV3) lowered by drop_bits
lower_payload_bits(c, drop_bits) ==
  SubSeq(c, 1, 38) \o LE32(RdU32(c, 38) - drop_bits) \o SubSeq(c, 43, Len(c))

\* c with one byte of the magic zeroed (magic in 1..4) and the version field
\* overwritten
edit_header(c, magic, version) ==
  [i \in 1..Len(c) |->
     IF i = magic THEN 0
     ELSE IF i = 5 THEN version % 256
     ELSE IF i = 6 THEN version \div 256
     ELSE c[i]]

cut_to(c, n) == IF n < 0 \/ n >= Len(c) THEN c ELSE SubSeq(c, 1, n)

Tamper(c, eff) ==
  cut_to(edit_header(lower_payload_bits(c, eff.drop_bits), eff.magic, eff.version),
         eff.cut) \o eff.extra

\* the alterations of a version-3 container c; a container relabelled as
\* version 2 is kept only when it is too short or its magic is broken
Effects(c) ==
  {[NoChannel EXCEPT !.kind = "append", !.extra = x] : x \in ExtraBytes}
  \cup {[NoChannel EXCEPT !.kind = "cut_payload", !.cut = Len(c) - 1]}
  \cup {[NoChannel EXCEPT !.kind = "shrink_bits", !.drop_bits = k] :
          k \in {1, RdU32(c, 38)}}
  \cup {eff \in {[NoChannel EXCEPT !.kind = "header", !.magic = m[1], !.version = m[2],
                                   !.cut = m[3]] :
                   m \in {0, 1, 4} \X HeaderVersions \X HeaderCuts} :
          /\ ~(eff.magic = 0 /\ eff.version = kVersionV3 /\ eff.cut = -1)
          /\ eff.version = kVersionV2 =>
               (eff.magic # 0 \/ eff.cut \in 0..(SizeofHeaderLayoutV2 - 1))}

Deliver ==
  /\ pc = "encoded"
  /\ \E eff \in Effects(out.bytes) :
       /\ channel' = eff
       /\ out' = [out EXCEPT !.bytes = Tamper(out.bytes, eff)]
  /\ pc' = "delivered"
  /\ UNCHANGED <<params, input, err, enc, dec, output, sent, probe>>

(***************************************************************************)
(* Encoding into a Bitstream over an external region.                      *)
(***************************************************************************)
\* capacities around the size of the containers of the small images
ExternalCapacities == {0, 45, 46, 47, 48}

\* fresh external streams, and one that already holds bytes of an earlier use
ExternalStreams ==
  {ExternalBitstream(c) : c \in ExternalCapacities}
  \cup {[ExternalBitstream(47) EXCEPT !.bytes = <<1, 2, 3>>]}

(***************************************************************************)
(* The scan controller driven alone: step() called on a fresh ControlState *)
(* for one pass over the cube.                                             *)
(***************************************************************************)
\* the cube has at most this many columns, rows and bands
MaxScan == 3

\* two schedules that climb within a pass, and two whose
\* (v_max - v_min) * 2^tinc_log does not fit a 32-bit int
ScanSchedules == {[v_min |-> -1, v_max |-> 3, tinc_log |-> 0],
                  [v_min |-> 0, v_max |-> 2, tinc_log |-> 1],
                  [v_min |-> -2, v_max |-> 1, tinc_log |-> 30],
                  [v_min |-> 0, v_max |-> 1, tinc_log |-> 31]}

ScanConfigs ==
  {[nx |-> d[1], ny |-> d[2], nz |-> d[3],
    v_min |-> sch.v_min, v_max |-> sch.v_max, tinc_log |-> sch.tinc_log] :
     d \in (1..MaxScan) \X (1..MaxScan) \X (1..MaxScan), sch \in ScanSchedules}

\* a driver pc that belongs to no call of encode or decode
InitIdle ==
  /\ params = DefaultParams
  /\ input = <<>>
  /\ out = OwnedBitstream
  /\ pc = "idle"
  /\ err = "none"
  /\ enc = EncIdle
  /\ dec = DecIdle
  /\ output = <<>>
  /\ sent = <<>>
  /\ channel = NoChannel

InitScan ==
  /\ InitIdle
  /\ \E cfg \in ScanConfigs :
       probe = [kind |-> "scan", cfg |-> cfg, control |-> ControlInit, i |-> 0,
                reports |-> <<>>]

\* one call of step(): what it returns, with the cursor it returned it at
Step ==
  /\ probe.kind = "scan"
  /\ probe.i < probe.cfg.nx * probe.cfg.ny * probe.cfg.nz
  /\ probe' = [probe EXCEPT
                 !.control = step_advance(probe.cfg, probe.control),
                 !.i = probe.i + 1,
                 !.reports = Append(probe.reports,
                                    [x |-> probe.control.x, y |-> probe.control.y,
                                     out |-> step_output(probe.cfg, probe.control)])]
  /\ UNCHANGED <<params, input, out, pc, err, enc, dec, output, sent, channel>>

(***************************************************************************)
(* The residual mapper driven alone: residual_map, then residual_unmap on  *)
(* the delta it returned.                                                  *)
(***************************************************************************)
\* the mapper is driven for depths up to this one
MaxMapD == 4

InitMap ==
  /\ InitIdle
  /\ \E d \in 1..MaxMapD :
       \E sp \in (-Pow2(d))..(Pow2(d) - 1), smp \in (-Pow2(d - 1))..(Pow2(d - 1) - 1) :
         probe = [kind |-> "map", stage |-> "fresh", depth |-> d, scaled_pred |-> sp,
                  sample |-> smp, mapped |-> [delta |-> 0, residual |-> 0, theta |-> 0],
                  unmapped |-> 0]

MapSample ==
  /\ probe.kind = "map"
  /\ probe.stage = "fresh"
  /\ probe' = [probe EXCEPT
                 !.stage = "mapped",
                 !.mapped = residual_map([ctrl |-> NoCtrl, depth |-> probe.depth,
                                          sample |-> probe.sample,
                                          scaled_pred |-> probe.scaled_pred])]
  /\ UNCHANGED <<params, input, out, pc, err, enc, dec, output, sent, channel>>

UnmapSample ==
  /\ probe.kind = "map"
  /\ probe.stage = "mapped"
  /\ probe' = [probe EXCEPT
                 !.stage = "unmapped",
                 !.unmapped = residual_unmap(probe.mapped.delta, probe.scaled_pred,
                                             probe.depth)]
  /\ UNCHANGED <<params, input, out, pc, err, enc, dec, output, sent, channel>>

(***************************************************************************)
(* encode_payload run on two images of one shape and one setting, the two  *)
(* loops an iteration at a time.  The second image is the first with one   *)
(* sample changed: two images that agree on their first i samples are      *)
(* joined by a chain of images, each the one before with one sample of a   *)
(* step from i on changed.                                                 *)
(***************************************************************************)
\* the images of the pairs have at most this many bits
MaxPairBits == 6

\* and samples of at most this many bits
MaxPairD == 2

PairShapes == {sh \in Shapes(MaxPairBits) : sh[4] <= MaxPairD}

InitPair ==
  \E sh \in PairShapes, prof \in NarrowProfiles :
    /\ params = MakeParams(sh[1], sh[2], sh[3], sh[4], prof)
    /\ input \in Images(sh[1] * sh[2] * sh[3], sh[4])
    /\ out = OwnedBitstream
    /\ pc = "init"
    /\ err = "none"
    /\ enc = EncIdle
    /\ dec = DecIdle
    /\ output = FreshOutput(params)
    /\ sent = <<>>
    /\ channel = NoChannel
    /\ \E j \in DOMAIN input, v \in 0..(Pow2(sh[4]) - 1) :
         /\ v # input[j]
         /\ probe = [kind |-> "pair", other |-> [input EXCEPT ![j] = v],
                     enc |-> EncIdle]

PairBegin ==
  /\ probe.kind = "pair"
  /\ pc = "init"
  /\ encode_begin(params, input) = "none"
  /\ encode_begin(params, probe.other) = "none"
  /\ pc' = "encode"
  /\ enc' = encode_payload_begin(params)
  /\ probe' = [probe EXCEPT !.enc = encode_payload_begin(params)]
  /\ UNCHANGED <<params, input, out, err, dec, output, sent, channel>>

PairSample ==
  /\ probe.kind = "pair"
  /\ pc = "encode"
  /\ enc.s < Total(params)
  /\ enc' = encode_payload_step(params, input, enc)
  /\ probe' = [probe EXCEPT !.enc = encode_payload_step(params, probe.other, probe.enc)]
  /\ UNCHANGED <<params, input, out, pc, err, dec, output, sent, channel>>

NextPair == PairBegin \/ PairSample

SpecPair == InitPair /\ [][NextPair]_vars

(***************************************************************************)
(* decode on a container whose header is the one encode writes for the     *)
(* settings and whose payload bits are arbitrary.                          *)
(***************************************************************************)
\* the arbitrary payloads have this many bits, in two bytes
MaxGarbledBits == 9

\* the settings of the garbled containers: one whose unary limit lets a
\* codeword below the escape carry a delta of 2^D and more
GarbledProfiles ==
  {Profile(2, 6, -2, 3, 1, 8, 3, 3, 0), Profile(1, 64, -1, 1, 0, 2, 1, 0, 0)}

\* every content of the MaxGarbledBits bits, the rest of the second byte 0
GarbledPayloads ==
  {<<a, b * Pow2(16 - MaxGarbledBits)>> :
     a \in 0..255, b \in 0..(Pow2(MaxGarbledBits - 8) - 1)}

InitGarbled ==
  \E sh \in PairShapes, prof \in GarbledProfiles, payload \in GarbledPayloads :
    /\ params = MakeParams(sh[1], sh[2], sh[3], sh[4], prof)
    /\ input = <<>>
    /\ out = [OwnedBitstream EXCEPT
                !.bytes = make_header(params, MaxGarbledBits) \o payload]
    /\ pc = "delivered"
    /\ err = "none"
    /\ enc = EncIdle
    /\ dec = DecIdle
    /\ output = FreshOutput(params)
    /\ sent = <<>>
    /\ channel = [NoChannel EXCEPT !.kind = "garbled"]
    /\ probe = NoProbe

NextGarbled == DecodeBegin \/ DecodeSample

SpecGarbled == InitGarbled /\ [][NextGarbled]_vars

(***************************************************************************)
(* The specifications.                                                     *)
(***************************************************************************)
Init == InitWith(Shapes(MaxImageBits), NarrowProfiles \cup WideProfiles, {OwnedBitstream})

Next == EncodeBegin \/ EncodeSample \/ EncodeFinish \/ DecodeBegin \/ DecodeSample

\* encode into an owned stream, decode what encode left
Spec == Init /\ [][Next]_vars

InitChannel == InitWith(Shapes(MaxChannelBits), ChannelProfiles, {OwnedBitstream})

NextChannel ==
  EncodeBegin \/ EncodeSample \/ EncodeFinish \/ Deliver \/ DecodeBegin \/ DecodeSample

\* encode, an altering channel, decode
SpecChannel == InitChannel /\ [][NextChannel]_vars

InitExternal == InitWith(Shapes(MaxChannelBits), NarrowProfiles, ExternalStreams)

\* encode into an external region, decode what encode left
SpecExternal == InitExternal /\ [][Next]_vars

NextScan == Step

SpecScan == InitScan /\ [][NextScan]_vars

NextMap == MapSample \/ UnmapSample

SpecMap == InitMap /\ [][NextMap]_vars

(***************************************************************************)
(* Params and headers that carry the reduced or the column-oriented flag:  *)
(* the caller sets them in the Params of encode, or the container reaches  *)
(* decode with them set in the flags field of its version-3 header.        *)
(***************************************************************************)
\* an image encoded with flags holds at most this many bits
MaxFlagBits == 4

\* values of the flags field with a flag set
HeaderFlags == {kFlagReduced, kFlagColumnOriented, kFlagReduced + kFlagColumnOriented}

\* c with the flags field (offset 18 of HeaderLayoutV3) overwritten
set_flags(c, flags) == SubSeq(c, 1, 18) \o LE16(flags) \o SubSeq(c, 21, Len(c))

InitFlags ==
  \E sh \in Shapes(MaxFlagBits), prof \in ChannelProfiles, r \in BOOLEAN, c \in BOOLEAN :
    /\ params = [MakeParams(sh[1], sh[2], sh[3], sh[4], prof)
                   EXCEPT !.reduced = r, !.column_oriented = c]
    /\ input \in Images(sh[1] * sh[2] * sh[3], sh[4])
    /\ out = OwnedBitstream
    /\ pc = "init"
    /\ err = "none"
    /\ enc = EncIdle
    /\ dec = DecIdle
    /\ output = FreshOutput(params)
    /\ sent = <<>>
    /\ channel = NoChannel
    /\ probe = NoProbe

\* the container reaches decode with flags set in its header
DeliverFlagged ==
  /\ pc = "encoded"
  /\ \E f \in HeaderFlags :
       out' = [out EXCEPT !.bytes = set_flags(out.bytes, f)]
  /\ channel' = [NoChannel EXCEPT !.kind = "flags"]
  /\ pc' = "delivered"
  /\ UNCHANGED <<params, input, err, enc, dec, output, sent, probe>>

NextFlags ==
  EncodeBegin \/ EncodeSample \/ EncodeFinish \/ DeliverFlagged \/ DecodeBegin
    \/ DecodeSample

\* encode with any flags, decode what encode left or the same with flags set
SpecFlags == InitFlags /\ [][NextFlags]_vars

(***************************************************************************)
(* src/Ccsds123Codec.cpp: the legacy encoder that wrote version-2          *)
(* containers.  Its predictor settings are the constants kOmega, kRbits,   *)
(* kVmin, kVmax and kTincLog; its coder is a Golomb-Rice coder over one    *)
(* AdaptiveState [count, sum] shared by all bands: a unary quotient, then  *)
(* a k-bit remainder, for every sample.                                    *)
(***************************************************************************)
kOmega == 19
kRbits == 64
kVmin == -6
kVmax == 9
kTincLog == 4

\* an image of the legacy encoder holds at most this many bits
MaxLegacyBits == 6

\* SampleAdaptiveCoderParams of the legacy header file (member initialisers)
LegacyCoderParams == [initial_count |-> 1, initial_sum |-> 4, reset_threshold |-> 128]

\* the settings the legacy encoder runs with, whatever the Params say
legacy_params(p) ==
  [p EXCEPT !.omega = kOmega, !.register_bits = kRbits, !.v_min = kVmin,
            !.v_max = kVmax, !.tinc_log = kTincLog, !.reduced = FALSE]

legacy_validate_params(p) ==
  IF p.NX <= 0 \/ p.NY <= 0 \/ p.NZ <= 0 THEN "InvalidParams"
  ELSE IF p.D <= 0 \/ p.D > 16 THEN "InvalidParams"
  ELSE IF p.P # 0 THEN "InvalidParams"
  ELSE IF p.local_sum # NeighborNarrow THEN "InvalidParams"
  ELSE IF p.theta # 0 THEN "InvalidParams"
  ELSE "none"

RECURSIVE legacy_select_k_from(_, _)
legacy_select_k_from(state, k) ==
  IF Shl(state.count, k) < state.sum /\ k < 15
  THEN legacy_select_k_from(state, k + 1)
  ELSE k

legacy_select_k(state) == legacy_select_k_from(state, 0)

legacy_update_state(state, mapped, coder) ==
  IF state.count + 1 = coder.reset_threshold
  THEN [count |-> Shr(state.count + 2, 1), sum |-> Shr(state.sum + mapped + 1, 1)]
  ELSE [count |-> state.count + 1, sum |-> state.sum + mapped]

write_unary(w, value) == write_bit(write_zeros(w, value), 1)

legacy_make_header(p, payload_bits) ==
  kMagic \o LE16(kVersionV2)
    \o LE16(U16(p.NX)) \o LE16(U16(p.NY)) \o LE16(U16(p.NZ))
    \o LE16(U16(p.D)) \o LE16(U16(p.P))
    \o LE16(IF p.local_sum = NeighborNarrow THEN 1 ELSE 0)
    \o LE32(payload_bits) \o LE32(0) \o LE32(0)

legacy_encode_payload_begin(p) ==
  [s |-> 0, control |-> ControlInit, bands |-> create_band_states(legacy_params(p)),
   coder |-> [count |-> LegacyCoderParams.initial_count,
              sum |-> LegacyCoderParams.initial_sum],
   writer |-> BitWriterInit, last |-> NoLast]

\* the locals of the legacy encode_payload after the iteration; lp is
\* legacy_params of the Params
legacy_step_result(lp, e, at, sample_centered, pr, mapped, k, weights) ==
  [s |-> e.s + 1,
   control |-> step_advance(ControlConfig(lp), e.control),
   bands |-> [e.bands EXCEPT
                ![at.z] = store_sample(e.bands[at.z], weights, lp, at.x, sample_centered)],
   coder |-> legacy_update_state(e.coder, mapped.delta, LegacyCoderParams),
   writer |-> write_bits(write_unary(e.writer, Shr(mapped.delta, k)),
                         IF k = 0 THEN 0 ELSE mapped.delta % Pow2(k), k),
   last |-> [x |-> at.x, y |-> at.y, z |-> at.z, ctrl |-> at.ctrl,
             scaled_pred |-> pr.pred.scaled_pred, predicted |-> pr.pred.predicted,
             sample_centered |-> sample_centered, residual |-> mapped.residual,
             delta |-> mapped.delta, k |-> k,
             bits_before |-> e.writer.bits_written_]]

legacy_step_mapped(lp, e, at, sample_centered, pr, mapped) ==
  legacy_step_result(lp, e, at, sample_centered, pr, mapped,
                     legacy_select_k(e.coder),
                     weight_update(e.bands[at.z].weights,
                                   make_wu_inputs(lp, at.ctrl, pr.pred.scaled_pred,
                                                  sample_centered, pr.diffs),
                                   FALSE))

legacy_step_sample(lp, e, at, sample_centered, pr) ==
  legacy_step_mapped(lp, e, at, sample_centered, pr,
                     residual_map([ctrl |-> at.ctrl, depth |-> lp.D,
                                   sample |-> sample_centered,
                                   scaled_pred |-> pr.pred.scaled_pred]))

legacy_step_at(lp, e, at, sample_centered) ==
  legacy_step_sample(lp, e, at, sample_centered,
                     predict(lp, at.ctrl, e.bands[at.z].weights,
                             [gather_samples(e.bands[at.z], lp.NX, at.x, at.y)
                                EXCEPT !.cur = sample_centered]))

legacy_step_located(lp, inp, e, at) ==
  legacy_step_at(lp, e, at, inp[at.index] - Pow2(lp.D - 1))

\* one iteration of the loop of the legacy encode_payload
legacy_encode_payload_step(p, inp, e) ==
  legacy_step_located(legacy_params(p), inp, e, locate(legacy_params(p), e.control, e.s))

\* the checks of the legacy encode before encode_payload
legacy_encode_begin(p, inp) ==
  IF legacy_validate_params(p) # "none" THEN legacy_validate_params(p)
  ELSE IF Cardinality(DOMAIN inp) # Total(p) THEN "InputSizeMismatch"
  ELSE "none"

\* the end of the legacy encode: finish, make_header, clear, resize, memcpy
legacy_encode_end(p, w, bs) ==
  bs_resize_fill(bs_clear(bs),
                 legacy_make_header(p, finish(w).bits_written_) \o finish(w).sink)

\* the caller's Params of the legacy images: the member initialisers
LegacyProfiles == {Profile(19, 64, -1, 3, 6, 18, 6, 1, 0)}

InitLegacy == InitWith(Shapes(MaxLegacyBits), LegacyProfiles, {OwnedBitstream})

LegacyEncodeBeginWith(e) ==
  IF e = "none"
  THEN pc' = "legacy_encode" /\ enc' = legacy_encode_payload_begin(params) /\ err' = err
  ELSE pc' = "failed" /\ enc' = enc /\ err' = e

LegacyEncodeBegin ==
  /\ pc = "init"
  /\ LegacyEncodeBeginWith(legacy_encode_begin(params, input))
  /\ UNCHANGED <<params, input, out, dec, output, sent, channel, probe>>

LegacyEncodeSample ==
  /\ pc = "legacy_encode"
  /\ enc.s < Total(params)
  /\ enc' = legacy_encode_payload_step(params, input, enc)
  /\ UNCHANGED <<params, input, out, pc, err, dec, output, sent, channel, probe>>

LegacyEncodeFinish ==
  /\ pc = "legacy_encode"
  /\ enc.s >= Total(params)
  /\ enc' = [enc EXCEPT !.writer = finish(enc.writer)]
  /\ EncodeFinishWith(legacy_encode_end(params, enc.writer, out))
  /\ UNCHANGED <<params, input, dec, output, channel, probe>>

NextLegacy ==
  LegacyEncodeBegin \/ LegacyEncodeSample \/ LegacyEncodeFinish \/ DecodeBegin
    \/ DecodeSample

\* the legacy encoder writes a version-2 container, the current decoder
\* reads it
SpecLegacy == InitLegacy /\ [][NextLegacy]_vars

(***************************************************************************)
(* read_summary on the first n bytes of a container, of either version.    *)
(***************************************************************************)
ReadSummary ==
  /\ pc = "encoded"
  /\ \E n \in SizeofHeaderLayoutV2..Len(out.bytes) :
       probe' = [kind |-> "summary", n |-> n,
                 summary |-> read_summary(SubSeq(out.bytes, 1, n))]
  /\ pc' = "inspected"
  /\ UNCHANGED <<params, input, out, err, enc, dec, output, sent, channel>>

NextInspect ==
  EncodeBegin \/ EncodeSample \/ EncodeFinish \/ LegacyEncodeBegin
    \/ LegacyEncodeSample \/ LegacyEncodeFinish \/ ReadSummary

\* either encoder writes a container, read_summary is given a prefix of it
SpecInspect == InitLegacy /\ [][NextInspect]_vars

(***************************************************************************)
(* decode called with Params other than those given to encode, through the *)
(* vector overload (which resizes the output to the NX*NY*NZ of the        *)
(* caller's Params) or the span overload (the caller's span, here of the   *)
(* size of the image).                                                     *)
(***************************************************************************)
\* Params a caller of decode may hold for a container encoded with p
CallerParams(p) ==
  {DefaultParams,
   MakeParams(1, 1, 1, 16, Profile(5, 32, 0, 4, 2, 7, 4, 2, 3)),
   [MakeParams(p.NY, p.NX, p.NZ, 12, Profile(7, 40, -3, 2, 5, 30, 9, 4, 2))
      EXCEPT !.reduced = TRUE, !.column_oriented = TRUE, !.local_sum = NeighborWide,
             !.P = 3],
   [p EXCEPT !.theta = 1]}

\* the caller of decode holds other Params; the vector overload resizes the
\* output before it calls the span overload
DecodeAs ==
  /\ pc = "encoded"
  /\ \E q \in CallerParams(params), vector \in BOOLEAN :
       /\ params' = q
       /\ output' = IF vector THEN FreshOutput(q) ELSE output
       /\ channel' = [NoChannel EXCEPT !.kind = IF vector THEN "vector" ELSE "span"]
  /\ pc' = "delivered"
  /\ UNCHANGED <<input, out, err, enc, dec, sent, probe>>

NextCaller ==
  EncodeBegin \/ EncodeSample \/ EncodeFinish \/ DecodeAs \/ DecodeBegin \/ DecodeSample

\* encode, then decode by a caller that holds other Params
SpecCaller == InitChannel /\ [][NextCaller]_vars

(***************************************************************************)
(* weight_update driven alone, on the weight vector of one band, for the   *)
(* least omega, for the greatest omega whose limit 2^(omega+2) an int      *)
(* holds, and for the three above it.                                      *)
(***************************************************************************)
\* weight_update is called up to this many times on one vector
MaxWeightCalls == 4

\* omega with a depth and a scale exponent validate_params accepts with it:
\* the shift of the update is 1 for omega = 1 and -15 for the others
WeightCases ==
  {[omega |-> 1, depth |-> 2, scale_exponent |-> 0],
   [omega |-> 28, depth |-> 16, scale_exponent |-> -3],
   [omega |-> 29, depth |-> 16, scale_exponent |-> -2],
   [omega |-> 30, depth |-> 16, scale_exponent |-> -1],
   [omega |-> 31, depth |-> 16, scale_exponent |-> 0]}

\* local differences of a pixel: d_n, d_w and d_nw
DiffVectors ==
  {[i \in 0..2 |-> IF i = 0 THEN a ELSE IF i = 1 THEN -a ELSE 3] :
     a \in {0, 5, Pow2(14)}}

InitWeights ==
  /\ InitIdle
  /\ \E c \in WeightCases :
       probe = [kind |-> "weights", omega |-> c.omega, depth |-> c.depth,
                scale_exponent |-> c.scale_exponent,
                weights |-> init_weights(FALSE, c.omega, 3), calls |-> 0, limit |-> 0]

\* one call of weight_update, at the origin pixel or off it
WeightUpdate ==
  /\ probe.kind = "weights"
  /\ probe.calls < MaxWeightCalls
  /\ \E diffs \in DiffVectors, sample \in {-1, 1}, origin \in BOOLEAN,
        limit \in weight_limits(probe.omega) :
       probe' = [probe EXCEPT
                   !.weights =
                     weight_update_with(
                       probe.weights,
                       [ctrl |-> [NoCtrl EXCEPT
                                    !.first_line = origin, !.first_in_line = origin,
                                    !.scale_exponent = probe.scale_exponent],
                        depth |-> probe.depth, omega |-> probe.omega,
                        v_min |-> probe.scale_exponent, v_max |-> probe.scale_exponent,
                        scaled_pred |-> 0, sample |-> sample, diffs |-> diffs],
                       FALSE, limit),
                   !.calls = probe.calls + 1,
                   !.limit = limit]
  /\ UNCHANGED <<params, input, out, pc, err, enc, dec, output, sent, channel>>

NextWeights == WeightUpdate

SpecWeights == InitWeights /\ [][NextWeights]_vars

(***************************************************************************)
(* The reseeding of a weight vector: weight_update calls off the origin    *)
(* move the weights, the call at the origin pixel reseeds them.            *)
(***************************************************************************)
\* weight vectors of predictor orders up to this one are reseeded
MaxSeedP == 3

\* for omega up to this one
MaxSeedOmega == 12

InitSeed ==
  /\ InitIdle
  /\ \E omega \in 1..MaxSeedOmega, P \in 0..MaxSeedP, reduced \in BOOLEAN :
       probe = [kind |-> "seed", stage |-> "fresh", omega |-> omega, P |-> P,
                reduced |-> reduced,
                weights |-> init_weights(reduced, omega, P + (IF reduced THEN 0 ELSE 3))]

\* the WeightUpdateInputs of a call on the probed vector
seed_inputs(pr, origin, sample, d) ==
  [ctrl |-> [NoCtrl EXCEPT !.first_line = origin, !.first_in_line = origin],
   depth |-> pr.omega, omega |-> pr.omega, v_min |-> 0, v_max |-> 0,
   scaled_pred |-> 0, sample |-> sample,
   diffs |-> [i \in DOMAIN pr.weights |-> IF i % 2 = 0 THEN d ELSE -d]]

\* a call of weight_update off the origin pixel
Drift ==
  /\ probe.kind = "seed"
  /\ probe.stage = "fresh"
  /\ \E sample \in {-1, 1}, d \in {3, 40} :
       probe' = [probe EXCEPT
                   !.stage = "moved",
                   !.weights = weight_update(probe.weights,
                                             seed_inputs(probe, FALSE, sample, d),
                                             probe.reduced)]
  /\ UNCHANGED <<params, input, out, pc, err, enc, dec, output, sent, channel>>

\* the call of weight_update at the origin pixel
Reseed ==
  /\ probe.kind = "seed"
  /\ probe.stage = "moved"
  /\ probe' = [probe EXCEPT
                 !.stage = "reseeded",
                 !.weights = weight_update(probe.weights,
                                           seed_inputs(probe, TRUE, 1, 3),
                                           probe.reduced)]
  /\ UNCHANGED <<params, input, out, pc, err, enc, dec, output, sent, channel>>

NextSeed == Drift \/ Reseed

SpecSeed == InitSeed /\ [][NextSeed]_vars

(***************************************************************************)
(* local_diff driven alone in neighbor-narrow mode, on every combination   *)
(* of the three edge flags.                                                *)
(***************************************************************************)
\* the centered samples of a neighbourhood are drawn from -MaxDiffSample,
\* 0 and MaxDiffSample + 1
MaxDiffSample == 2

DiffSampleValues == {-MaxDiffSample, 0, MaxDiffSample + 1}

\* the neighbourhood of the local-difference test of codec_tests.cpp
TestSamples ==
  [cur |-> 120, west |-> 118, north |-> 122, north_west |-> 121, north_east |-> 123]

DiffSamples ==
  {TestSamples} \cup
  [cur : DiffSampleValues, west : DiffSampleValues, north : DiffSampleValues,
   north_west : DiffSampleValues, north_east : DiffSampleValues]

InitDiff ==
  /\ InitIdle
  /\ \E fl \in BOOLEAN, fil \in BOOLEAN, lil \in BOOLEAN, smp \in DiffSamples :
       probe = [kind |-> "diff", stage |-> "fresh",
                ctrl |-> [NoCtrl EXCEPT !.first_line = fl, !.first_in_line = fil,
                                        !.last_in_line = lil],
                samples |-> smp,
                local |-> [local_sum |-> 0, d_c |-> 0, d_n |-> 0, d_w |-> 0, d_nw |-> 0]]

LocalDiff ==
  /\ probe.kind = "diff"
  /\ probe.stage = "fresh"
  /\ probe' = [probe EXCEPT !.stage = "done",
                            !.local = local_diff(probe.ctrl, probe.samples, FALSE)]
  /\ UNCHANGED <<params, input, out, pc, err, enc, dec, output, sent, channel>>

NextDiff == LocalDiff

SpecDiff == InitDiff /\ [][NextDiff]_vars

(***************************************************************************)
(* select_k driven alone, as encode_sample and decode_sample call it: on   *)
(* rhs = accumulator + compute_rhs_part(counter), a std::uint32_t sum.  An *)
(* accumulator is a std::uint32_t and saturates at 2^32 - 1, so it is kept *)
(* here as two 16-bit halves, hi * 2^16 + lo.                              *)
(***************************************************************************)
\* the small accumulators select_k is driven on are 0..MaxSelectAcc
MaxSelectAcc == 12

\* and the depths 1..MaxSelectD and 16
MaxSelectD == 4

Half == Pow2(16)

wide_of(n) == [hi |-> n \div Half, lo |-> n % Half]

\* a + n without reduction: carry * 2^32 + hi * 2^16 + lo
wide_sum(a, n) ==
  [carry |-> (a.hi + (n \div Half) + ((a.lo + (n % Half)) \div Half)) \div Half,
   hi |-> (a.hi + (n \div Half) + ((a.lo + (n % Half)) \div Half)) % Half,
   lo |-> (a.lo + (n % Half)) % Half]

\* the std::uint32_t a + n: the carry is lost
u32_add(a, n) == [hi |-> wide_sum(a, n).hi, lo |-> wide_sum(a, n).lo]

\* rhs as select_k compares it.  counter << i is below 2^31 for the counters
\* (at most 2^16) and shifts (at most 14) of the coder, so an rhs of 2^31 or
\* more compares with it as 2^31 - 1 does.
u32_compared(w) == IF w.hi >= Pow2(15) THEN Int32Max ELSE w.hi * Half + w.lo

\* counters of the coder, 56874 the one a 256 x 256 image of depth 16 has
\* when its accumulator nears 2^32
SelectCounters == {0, 1, 2, 3, 6, 56874, 65535}

\* accumulators of the coder: small ones, and 4294948834, 2^32 - 2 and the
\* saturation value 2^32 - 1
SelectAccumulators ==
  {wide_of(n) : n \in 0..MaxSelectAcc} \cup
  {[hi |-> 65535, lo |-> 47074], [hi |-> 65535, lo |-> 65534],
   [hi |-> 65535, lo |-> 65535]}

InitSelect ==
  /\ InitIdle
  /\ \E counter \in SelectCounters, acc \in SelectAccumulators,
        depth \in (1..MaxSelectD) \cup {16} :
       probe = [kind |-> "select", stage |-> "fresh", counter |-> counter,
                accumulator |-> acc, depth |-> depth, k_enc |-> 0, k_dec |-> 0]

\* k of encode_sample
SelectEnc ==
  /\ probe.kind = "select"
  /\ probe.stage = "fresh"
  /\ probe' = [probe EXCEPT
                 !.stage = "encoded",
                 !.k_enc = enc_select_k(probe.counter,
                                        u32_compared(u32_add(probe.accumulator,
                                                             compute_rhs_part(probe.counter))),
                                        probe.depth)]
  /\ UNCHANGED <<params, input, out, pc, err, enc, dec, output, sent, channel>>

\* k of decode_sample, from the same counter and accumulator
SelectDec ==
  /\ probe.kind = "select"
  /\ probe.stage = "encoded"
  /\ probe' = [probe EXCEPT
                 !.stage = "decoded",
                 !.k_dec = dec_select_k(probe.counter,
                                        u32_compared(u32_add(probe.accumulator,
                                                             compute_rhs_part(probe.counter))),
                                        probe.depth)]
  /\ UNCHANGED <<params, input, out, pc, err, enc, dec, output, sent, channel>>

NextSelect == SelectEnc \/ SelectDec

SpecSelect == InitSelect /\ [][NextSelect]_vars

(***************************************************************************)
(* The codeword of a sample that is not the first, driven alone: emit_code *)
(* into a writer that holds earlier codewords, another codeword behind it, *)
(* and the decoder's read of it once the earlier bits are consumed.        *)
(***************************************************************************)
\* codewords are written for depths up to this one
MaxCodeD == 4

\* for u_max up to this one
MaxCodeU == 3

\* behind up to this many earlier one-bit codewords
MaxCodeLead == 2

CodeParams(d, u_max) == [DefaultParams EXCEPT !.D = d, !.coder.u_max = u_max]

InitCode ==
  /\ InitIdle
  /\ \E d \in 1..MaxCodeD, u_max \in 1..MaxCodeU, lead \in 0..MaxCodeLead :
       \E k \in 0..Max(0, d - 2), delta \in 0..(Pow2(d) - 1) :
         probe = [kind |-> "code", stage |-> "fresh", p |-> CodeParams(d, u_max),
                  k |-> k, delta |-> delta, lead |-> lead, ends |-> 0,
                  writer |-> write_bits(BitWriterInit, Pow2(lead) - 1, lead),
                  got |-> [ok |-> FALSE, value |-> 0,
                           r |-> BitReaderInit(<<>>, 0)]]

\* emit_code of the sample, then the codeword of the next one
EmitCode ==
  /\ probe.kind = "code"
  /\ probe.stage = "fresh"
  /\ probe' = [probe EXCEPT
                 !.stage = "emitted",
                 !.ends = emit_code(probe.writer, probe.delta, probe.k,
                                    probe.p).bits_written_,
                 !.writer = write_bit(emit_code(probe.writer, probe.delta, probe.k,
                                                probe.p), 1)]
  /\ UNCHANGED <<params, input, out, pc, err, enc, dec, output, sent, channel>>

\* the reader of the finished payload after the earlier codewords
code_reader(w, lead) ==
  read_bits_checked(BitReaderInit(finish(w).sink, w.bits_written_), lead).r

\* the decoder's read of the codeword
ReadCode ==
  /\ probe.kind = "code"
  /\ probe.stage = "emitted"
  /\ probe' = [probe EXCEPT
                 !.stage = "read",
                 !.got = read_code(read_unary_limited(code_reader(probe.writer,
                                                                  probe.lead),
                                                      probe.p),
                                   probe.k, probe.p)]
  /\ UNCHANGED <<params, input, out, pc, err, enc, dec, output, sent, channel>>

NextCode == EmitCode \/ ReadCode

SpecCode == InitCode /\ [][NextCode]_vars

(***************************************************************************)
(* Properties.  Helpers first: the bit at index j of a byte sequence       *)
(* (MSB-first), the payload of a version-3 container, and whether encode   *)
(* or decode has returned.                                                 *)
(***************************************************************************)
BitAt(bytes, j) == (bytes[(j \div 8) + 1] \div Pow2(7 - (j % 8))) % 2

PayloadOf(c) == SubSeq(c, SizeofHeaderLayoutV3 + 1, Len(c))

Encoded == sent # <<>>

DecodeEntered == pc \in {"decode", "done", "failed"} /\ Encoded

\* C1: round-trip identity.  For every Params validate_params accepts and
\* every image in range, decode(encode(image, params)) returns exactly the
\* image: the run never ends in an error, and when decode has returned the
\* output equals the input.
C1_RoundTrip ==
  /\ pc # "failed"
  /\ pc = "done" => output = input

\* a decode that finished on a container whose header could not hold the
\* v_max given to encode
C1_WideScheduleDecoded ==
  /\ pc = "done"
  /\ params.v_max > 32767
  /\ dec.effective.v_max # params.v_max

\* C2: mapper bijection.  For every depth D, scaled prediction in
\* [-2^D, 2^D - 1] and centered sample in [-2^(D-1), 2^(D-1) - 1], unmapping
\* the delta of residual_map gives back e = sample - (scaled_pred >> 1), the
\* residual residual_map reported, also when |e| > theta.
C2_MapperBijection ==
  /\ (probe.kind = "map" /\ probe.stage # "fresh") =>
       probe.mapped.residual = probe.sample - Shr(probe.scaled_pred, 1)
  /\ (probe.kind = "map" /\ probe.stage = "unmapped") =>
       probe.unmapped = probe.sample - Shr(probe.scaled_pred, 1)

\* a residual beyond theta whose sign the parity rule alone would get wrong
C2_BeyondThetaUnmapped ==
  /\ probe.kind = "map"
  /\ probe.stage = "unmapped"
  /\ Abs(probe.mapped.residual) > probe.mapped.theta
  /\ probe.mapped.residual < 0
  /\ is_even(probe.scaled_pred)
  /\ probe.unmapped = probe.mapped.residual

\* C3: scan coverage.  From a fresh ControlState the i-th call of step()
\* (0-based) reports z = i mod NZ at the cursor x = (i div NZ) mod NX,
\* y = i div (NZ*NX), with first_line <=> y = 0, first_in_line <=> x = 0 and
\* last_in_line <=> x = NX-1; after NX*NY*NZ calls every cell (x,y,z) was
\* reported exactly once.
C3_ScanCoverage ==
  probe.kind = "scan" =>
    /\ Len(probe.reports) = probe.i
    /\ \A k \in 1..Len(probe.reports) :
         /\ probe.reports[k].out.z = (k - 1) % probe.cfg.nz
         /\ probe.reports[k].x = ((k - 1) \div probe.cfg.nz) % probe.cfg.nx
         /\ probe.reports[k].y = (k - 1) \div (probe.cfg.nz * probe.cfg.nx)
         /\ probe.reports[k].out.ctrl.first_line <=> probe.reports[k].y = 0
         /\ probe.reports[k].out.ctrl.first_in_line <=> probe.reports[k].x = 0
         /\ probe.reports[k].out.ctrl.last_in_line <=>
              probe.reports[k].x = probe.cfg.nx - 1
    /\ probe.i = probe.cfg.nx * probe.cfg.ny * probe.cfg.nz =>
         /\ {<<probe.reports[k].x, probe.reports[k].y, probe.reports[k].out.z>> :
               k \in 1..Len(probe.reports)}
              = (0..(probe.cfg.nx - 1)) \X (0..(probe.cfg.ny - 1))
                  \X (0..(probe.cfg.nz - 1))
         /\ \A j, k \in 1..Len(probe.reports) :
              (probe.reports[j].x = probe.reports[k].x
                /\ probe.reports[j].y = probe.reports[k].y
                /\ probe.reports[j].out.z = probe.reports[k].out.z) => j = k

\* a whole pass over a cube with several columns, rows and bands
C3_FullPass ==
  /\ probe.kind = "scan"
  /\ probe.cfg.nx > 1 /\ probe.cfg.ny > 1 /\ probe.cfg.nz > 1
  /\ probe.i = probe.cfg.nx * probe.cfg.ny * probe.cfg.nz

\* C4: trailing bytes are ignored.  For a container c of encode and bytes
\* extra, decode(c ++ extra) succeeds and yields the image decode(c) yields;
\* and the reader never consumes a bit at index >= payload_bits, nor fetches a
\* byte beyond the ceil(payload_bits/8) payload bytes.
C4_TrailingBytesIgnored ==
  /\ channel.kind = "append" =>
       /\ pc # "failed"
       /\ pc = "done" =>
            decode(sent, FreshOutput(params), params) = [err |-> "none", output |-> output]
  /\ dec.reader.consumed_bits_ <= dec.reader.payload_bits_
  /\ 8 * dec.reader.offset_ < dec.reader.payload_bits_ + 8

\* a decoded container that was followed by a byte of ones, its last payload
\* byte being padded
C4_DecodedWithTrailingBytes ==
  /\ pc = "done"
  /\ channel.kind = "append"
  /\ channel.extra = <<255>>
  /\ dec.reader.payload_bits_ % 8 # 0
  /\ Len(out.bytes) > Len(sent)
  /\ output = input

\* C5: container introspection.  read_summary of the container encode
\* produced returns the NX, NY, NZ, D, P, local-sum mode, flags, v_min, v_max,
\* omega, R, t_inc, u_max, gamma, gamma0 and k'_z given to encode, and the
\* number of bits the coder wrote as payload_bits.
C5_Introspection ==
  Encoded =>
    /\ read_summary(sent).err = "none"
    /\ read_summary(sent).params = [params EXCEPT !.theta = DefaultParams.theta]
    /\ read_summary(sent).payload_bits = enc.writer.bits_written_

\* a container encoded with a v_max beyond 16 bits, its header parsed
C5_WideScheduleEncoded ==
  /\ Encoded
  /\ params.v_max > 32767
  /\ read_summary(sent).err = "none"

\* C6: the output of a successful encode is a version-3 header (magic
\* 'C','1','2','3', version 3) followed by exactly ceil(payload_bits/8) bytes;
\* the header's payload_bits is the number of bits the coder emitted, bit j of
\* the payload (MSB-first) is the j-th emitted bit, and the bits after the
\* last emitted one are zero.
C6_ContainerLayout ==
  Encoded =>
    /\ Len(sent) >= SizeofHeaderLayoutV3
    /\ SubSeq(sent, 1, 4) = <<67, 49, 50, 51>>
    /\ RdU16(sent, 4) = 3
    /\ RdU32(sent, 38) = Len(enc.writer.history)
    /\ Len(sent) = SizeofHeaderLayoutV3 + (Len(enc.writer.history) + 7) \div 8
    /\ \A j \in 0..(8 * Len(PayloadOf(sent)) - 1) :
         BitAt(PayloadOf(sent), j) =
           IF j < Len(enc.writer.history) THEN enc.writer.history[j + 1] ELSE 0

\* a payload of more than one byte that ends with a one in a padded byte
C6_PaddedPayload ==
  /\ Encoded
  /\ Len(enc.writer.history) > 8
  /\ Len(enc.writer.history) % 8 # 0
  /\ enc.writer.history[Len(enc.writer.history)] = 1
  /\ out.bytes = sent

\* C7: a sample processed with first_line and first_in_line is coded as
\* exactly D raw bits, the low D bits of delta MSB-first, with no unary prefix
\* and no remainder; so a 1x1x1 image of depth D has payload_bits = D, and
\* for D = 8 the sample 0x80 gives 8 zero bits.
C7_OriginRaw ==
  /\ (enc.s > 0 /\ enc.last.ctrl.first_line /\ enc.last.ctrl.first_in_line) =>
       /\ enc.writer.bits_written_ - enc.last.bits_before = params.D
       /\ \A i \in 1..params.D :
            enc.writer.history[enc.last.bits_before + i]
              = ((enc.last.delta % Pow2(params.D)) \div Pow2(params.D - i)) % 2
  /\ (Encoded /\ Total(params) = 1) => RdU32(sent, 38) = params.D
  /\ (Encoded /\ Total(params) = 1 /\ params.D = 8 /\ input[0] = 128) =>
       /\ enc.writer.history = <<0, 0, 0, 0, 0, 0, 0, 0>>
       /\ PayloadOf(sent) = <<0>>

\* the 1x1x1 image of depth 8 holding 0x80, encoded
C7_MidGrayPixel ==
  /\ Encoded
  /\ Total(params) = 1
  /\ params.D = 8
  /\ input[0] = 128
  /\ RdU32(sent, 38) = 8

\* the payload of the delivered container holds fewer bits than the coder
\* wrote, behind a header that is the one encode wrote up to payload_bits
PayloadShort ==
  /\ Encoded
  /\ pc \in {"delivered", "decode", "done", "failed"}
  /\ Len(out.bytes) >= SizeofHeaderLayoutV3
  /\ SubSeq(out.bytes, 1, 38) = SubSeq(sent, 1, 38)
  /\ Min(RdU32(out.bytes, 38), 8 * (Len(out.bytes) - SizeofHeaderLayoutV3))
       < enc.writer.bits_written_

\* C8: the reader enforces the payload_bits budget.  On a container whose
\* payload holds fewer bits than the samples need, decode never returns an
\* image: it stays in the loop with samples left until a read fails at the
\* budget or at the end of the payload bytes, and then ends with
\* TruncatedPayload, no further sample being reconstructed.
C8_BudgetEnforced ==
  PayloadShort =>
    /\ pc # "done"
    /\ pc = "decode" => dec.s < Total(dec.effective)
    /\ pc = "failed" =>
         /\ err = "TruncatedPayload"
         /\ \/ dec.reader.consumed_bits_ >= dec.reader.payload_bits_
            \/ (dec.reader.available_bits_ = 0
                 /\ dec.reader.offset_ >= Len(dec.reader.bytes_))
         /\ \A i \in DOMAIN output :
              output[i] # Unwritten =>
                \E s \in 0..(dec.s - 1) :
                  i = (s % params.NZ) * (params.NX * params.NY) + s \div params.NZ

\* a decode that reconstructed a sample and then failed at the lowered budget
C8_TruncatedAtBudget ==
  /\ pc = "failed"
  /\ err = "TruncatedPayload"
  /\ channel.kind = "shrink_bits"
  /\ dec.s > 0
  /\ dec.reader.consumed_bits_ = dec.reader.payload_bits_

\* C9: encode into an external region smaller than header size +
\* ceil(payload_bits/8) fails with BufferOverflow; afterwards size() does not
\* exceed the capacity and bytes() exposes nothing of the container.
C9_ExternalOverflow ==
  out.external =>
    /\ Len(out.bytes) <= out.capacity
    /\ (pc \notin {"init", "encode"}
         /\ out.capacity < SizeofHeaderLayoutV3 + (enc.writer.bits_written_ + 7) \div 8) =>
         /\ pc = "failed"
         /\ err = "BufferOverflow"
         /\ out.bytes = <<>>
         /\ sent = <<>>

\* an encode that failed on a region with room for the header only
C9_OverflowedRegion ==
  /\ out.external
  /\ out.capacity = SizeofHeaderLayoutV3
  /\ pc = "failed"
  /\ err = "BufferOverflow"
  /\ enc.writer.bits_written_ > 0

\* b has the four bytes of a magic, and they are not 'C','1','2','3'
BadMagic(b) == Len(b) >= 4 /\ SubSeq(b, 1, 4) # kMagic

\* b declares a version: its version field is there
DeclaredVersion(b) == IF Len(b) >= 6 THEN RdU16(b, 4) ELSE -1

NothingWritten == output = FreshOutput(params) /\ dec = DecIdle

\* C10 as stated: decode and read_summary fail with ContainerTooSmall when
\* the container is shorter than the header of its declared version (2 or
\* 3), and with InvalidContainer when the magic is not 'C','1','2','3' or the
\* version is neither 2 nor 3; no output sample is written.
C10_HeaderErrorsAsStated ==
  DecodeEntered =>
    /\ ((DeclaredVersion(out.bytes) = kVersionV2 /\ Len(out.bytes) < SizeofHeaderLayoutV2)
         \/ (DeclaredVersion(out.bytes) = kVersionV3
              /\ Len(out.bytes) < SizeofHeaderLayoutV3)) =>
         /\ pc = "failed" /\ err = "ContainerTooSmall" /\ NothingWritten
         /\ read_summary(out.bytes).err = "ContainerTooSmall"
    /\ (BadMagic(out.bytes) \/ DeclaredVersion(out.bytes) \notin {kVersionV2, kVersionV3}) =>
         /\ pc = "failed" /\ err = "InvalidContainer" /\ NothingWritten
         /\ read_summary(out.bytes).err = "InvalidContainer"

\* C10, by the order of the code's tests: a container of fewer than 30 bytes
\* is ContainerTooSmall whatever it holds; of the others a wrong magic is
\* InvalidContainer, then a version other than 2 and 3 is InvalidContainer,
\* then a version-3 container of fewer than 46 bytes is ContainerTooSmall.
\* decode and read_summary agree, and no output sample is written.
C10_HeaderErrorsInOrder ==
  DecodeEntered =>
    /\ Len(out.bytes) < SizeofHeaderLayoutV2 =>
         pc = "failed" /\ err = "ContainerTooSmall"
    /\ (Len(out.bytes) >= SizeofHeaderLayoutV2 /\ BadMagic(out.bytes)) =>
         pc = "failed" /\ err = "InvalidContainer"
    /\ (Len(out.bytes) >= SizeofHeaderLayoutV2 /\ ~BadMagic(out.bytes)
         /\ DeclaredVersion(out.bytes) \notin {kVersionV2, kVersionV3}) =>
         pc = "failed" /\ err = "InvalidContainer"
    /\ (Len(out.bytes) >= SizeofHeaderLayoutV2 /\ ~BadMagic(out.bytes)
         /\ DeclaredVersion(out.bytes) = kVersionV3
         /\ Len(out.bytes) < SizeofHeaderLayoutV3) =>
         pc = "failed" /\ err = "ContainerTooSmall"
    /\ err \in {"ContainerTooSmall", "InvalidContainer"} =>
         /\ pc = "failed"
         /\ NothingWritten
         /\ read_summary(out.bytes).err = err

\* a container of 29 bytes with a wrong magic, refused as too small
C10_ShortWithBadMagic ==
  /\ pc = "failed"
  /\ err = "ContainerTooSmall"
  /\ Len(out.bytes) = 29
  /\ BadMagic(out.bytes)
  /\ NothingWritten


\* C11: Params with the reduced flag or the column-oriented flag set are
\* rejected with InvalidParams: by encode, which then runs no step of
\* encode_payload and leaves no container, and by decode when the flags field
\* of the version-3 header carries a flag, which then parses no payload and
\* writes no sample.
C11_FlagsRejected ==
  /\ ((params.reduced \/ params.column_oriented) /\ pc # "init") =>
       /\ pc = "failed"
       /\ err = "InvalidParams"
       /\ enc = EncIdle
       /\ sent = <<>>
  /\ (channel.kind = "flags" /\ pc # "delivered") =>
       /\ pc = "failed"
       /\ err = "InvalidParams"
       /\ dec = DecIdle
       /\ output = FreshOutput(params)

\* an encode that returned a container for Params with the column-oriented
\* flag set, the flag being in the header
C11_ColumnOrientedEncoded ==
  /\ params.column_oriented
  /\ ~params.reduced
  /\ Encoded
  /\ RdU16(sent, 18) = kFlagColumnOriented


\* the size of the header of the version the container c declares
HeaderSizeOf(c) ==
  IF RdU16(c, 4) = kVersionV2 THEN SizeofHeaderLayoutV2 ELSE SizeofHeaderLayoutV3

\* C12 as stated: for every prefix of a valid container (version 2 or 3)
\* that is at least as long as the version-2 header, read_summary returns
\* (Params, payload_bits) successfully, and what it returns owes nothing to
\* the payload: it is what read_summary returns for the whole container.
C12_PrefixSummaryAsStated ==
  probe.kind = "summary" =>
    /\ probe.summary.err = "none"
    /\ probe.summary = read_summary(sent)

\* C12: for every prefix of a valid container that is at least as long as
\* the header of the container's own version (30 bytes for version 2, 46 for
\* version 3), read_summary returns successfully the dimensions and depth
\* given to the encoder and the number of bits it wrote, and the result is
\* the one read_summary returns for the header alone, with no payload byte
\* at hand; a prefix of a version-3 container of 30 to 45 bytes fails with
\* ContainerTooSmall.
C12_PrefixSummary ==
  probe.kind = "summary" =>
    IF probe.n >= HeaderSizeOf(sent)
    THEN /\ probe.summary.err = "none"
         /\ probe.summary = read_summary(SubSeq(sent, 1, HeaderSizeOf(sent)))
         /\ probe.summary.payload_bits = enc.writer.bits_written_
         /\ probe.summary.params.NX = params.NX
         /\ probe.summary.params.NY = params.NY
         /\ probe.summary.params.NZ = params.NZ
         /\ probe.summary.params.D = params.D
    ELSE probe.summary.err = "ContainerTooSmall"

\* the summary of the bare header of a version-2 container that has a payload
C12_LegacyHeaderSummarised ==
  /\ probe.kind = "summary"
  /\ RdU16(sent, 4) = kVersionV2
  /\ probe.n = SizeofHeaderLayoutV2
  /\ Len(sent) > SizeofHeaderLayoutV2
  /\ probe.summary.err = "none"
  /\ probe.summary.payload_bits > 0


\* the decoder runs with the historical defaults in the fields a version-2
\* header does not carry
HistoricalDefaults(p) ==
  /\ p.v_min = -6 /\ p.v_max = 9 /\ p.omega = 19 /\ p.register_bits = 64
  /\ p.tinc_log = 4 /\ p.coder.u_max = 9 /\ p.coder.counter_size = 8
  /\ p.coder.initial_count_exponent = 6 /\ p.coder.kz_prime = 8

\* C13: legacy compatibility.  A version-2 container written by the legacy
\* encoder for an image is decoded by the current decoder, running with the
\* historical defaults (v_min = -6, v_max = 9, omega = 19, R = 64, t_inc = 4,
\* u_max = 9, gamma = 8, gamma0 = 6, k'_z = 8), to exactly that image: decode
\* never fails, and when it has returned the output equals the input.
C13_LegacyCompatible ==
  (Encoded /\ RdU16(sent, 4) = kVersionV2) =>
    /\ pc \in {"decode", "done"} => HistoricalDefaults(dec.effective)
    /\ pc # "failed"
    /\ pc = "done" => output = input

\* a version-2 container of the legacy encoder, decoded to the end with the
\* historical defaults
C13_LegacyContainerDecoded ==
  /\ pc = "done"
  /\ RdU16(sent, 4) = kVersionV2
  /\ Len(sent) > SizeofHeaderLayoutV2
  /\ HistoricalDefaults(dec.effective)
  /\ dec.effective.D = params.D


\* C14: the decoder takes every codec setting from the container header.
\* For a container of encode, decode succeeds and returns the encoded image
\* whatever the caller's Params carry: dimensions, depth, predictor and coder
\* settings.
C14_HeaderGoverns ==
  channel.kind \in {"vector", "span"} =>
    /\ pc # "failed"
    /\ pc = "done" => output = input

\* a decode that returned the image to a caller whose Params carry another
\* shape, depth, flags and predictor and coder settings
C14_DecodedUnderOtherParams ==
  /\ channel.kind = "vector"
  /\ pc = "done"
  /\ output = input
  /\ params.NX # dec.effective.NX
  /\ params.D # dec.effective.D
  /\ params.reduced
  /\ params.omega # dec.effective.omega
  /\ params.coder # dec.effective.coder


\* floor(u / 2^n) for 0 <= u < 2^31
FloorDivPow2(u, n) == IF n >= 31 THEN 0 ELSE u \div Pow2(n)

\* C15: over one frame the scale_exponent values step() returns are
\* non-decreasing from each step to the next and lie in [v_min, v_max], for
\* all v_min <= v_max and t_inc >= 0; with u = t - NX, t the spatial cursor
\* x + y*NX, the value is v_min while u <= 0, v_max once
\* u >= (v_max - v_min) * 2^t_inc (that is, floor(u / 2^t_inc) >= v_max - v_min),
\* and v_min + floor(u / 2^t_inc) in between.
C15_ScaleSchedule ==
  probe.kind = "scan" =>
    \A k \in 1..Len(probe.reports) :
      /\ probe.reports[k].out.ctrl.scale_exponent >= probe.cfg.v_min
      /\ probe.reports[k].out.ctrl.scale_exponent <= probe.cfg.v_max
      /\ k > 1 => probe.reports[k - 1].out.ctrl.scale_exponent
                    <= probe.reports[k].out.ctrl.scale_exponent
      /\ probe.reports[k].out.ctrl.scale_exponent =
           IF probe.reports[k].x + probe.reports[k].y * probe.cfg.nx - probe.cfg.nx <= 0
           THEN probe.cfg.v_min
           ELSE IF FloorDivPow2(probe.reports[k].x + probe.reports[k].y * probe.cfg.nx
                                  - probe.cfg.nx, probe.cfg.tinc_log)
                     >= probe.cfg.v_max - probe.cfg.v_min
           THEN probe.cfg.v_max
           ELSE probe.cfg.v_min
                  + FloorDivPow2(probe.reports[k].x + probe.reports[k].y * probe.cfg.nx
                                   - probe.cfg.nx, probe.cfg.tinc_log)

\* a whole pass under a schedule with t_inc = 30 that ended at v_max
C15_LongPeriodPass ==
  /\ probe.kind = "scan"
  /\ probe.cfg.tinc_log = 30
  /\ probe.cfg.ny > 1
  /\ probe.i = probe.cfg.nx * probe.cfg.ny * probe.cfg.nz
  /\ probe.reports[probe.i].out.ctrl.scale_exponent = probe.cfg.v_max


\* all samples of the image are equal
ConstantImage == \A i \in DOMAIN input : input[i] = input[0]

\* the iteration of encode_payload just done was not at the origin pixel
EncodedOffOrigin ==
  /\ pc \in {"encode", "encoded", "decode", "done"}
  /\ enc.s > 0
  /\ ~(enc.last.ctrl.first_line /\ enc.last.ctrl.first_in_line)

\* C16 as stated: for a constant image and any admissible Params, the
\* mapped residual delta of the encoder is 0 for every sample that is not at
\* the origin pixel.
C16_ConstantZeroDeltaAsStated ==
  (ConstantImage /\ EncodedOffOrigin) => enc.last.delta = 0

\* C16: for a constant image and admissible Params whose register is wide
\* enough for the local sum scaled by 2^omega (R >= D + omega + 2), the
\* mapped residual delta of the encoder is 0 for every sample that is not at
\* the origin pixel: the prediction is the sample, scaled_pred = 2s + 1.
C16_ConstantZeroDelta ==
  (ConstantImage /\ EncodedOffOrigin
     /\ params.register_bits >= params.D + params.omega + 2) =>
    /\ enc.last.delta = 0
    /\ enc.last.residual = 0
    /\ enc.last.scaled_pred = 2 * enc.last.sample_centered + 1

\* a constant image of several rows whose samples are not mid-range, encoded
\* to the end with a wide register
C16_ConstantRowsEncoded ==
  /\ ConstantImage
  /\ Encoded
  /\ params.NY > 1
  /\ params.D > 1
  /\ input[0] = 0
  /\ params.register_bits >= params.D + params.omega + 2
  /\ enc.last.delta = 0


\* the locals of encode_payload at the start of its iteration i
RECURSIVE encode_payload_at(_, _, _)
encode_payload_at(p, inp, i) ==
  IF i = 0 THEN encode_payload_begin(p)
  ELSE encode_payload_step(p, inp, encode_payload_at(p, inp, i - 1))

\* the decoder d against the encoder e after as many iterations: at the
\* start of an iteration the counter and accumulators and the rows and
\* weights of every band, and the scaled_pred of the iteration before
LockstepWith(d, e) ==
  /\ d.s = e.s
  /\ d.s < Total(d.effective) =>
       /\ d.coder.counter_ = e.coder.counter_
       /\ d.coder.accumulators_ = e.coder.accumulators_
       /\ \A z \in DOMAIN e.bands :
            /\ d.bands[z].prev_row = e.bands[z].prev_row
            /\ d.bands[z].curr_row = e.bands[z].curr_row
            /\ d.bands[z].weights = e.bands[z].weights
  /\ d.s > 0 => d.last.scaled_pred = e.last.scaled_pred

\* C17: encoder/decoder lockstep.  When decode runs on the container encode
\* produced, at the start of every scan step i the decoder's counter,
\* accumulators, prev_row/curr_row windows and weight vectors equal the
\* encoder's at the start of its step i, and both compute the same
\* scaled_pred for step i.
C17_Lockstep ==
  (pc \in {"decode", "done"} /\ Encoded) =>
    LockstepWith(dec, encode_payload_at(params, input, dec.s))

\* a decode that finished on a container whose header could not hold the
\* v_max given to encode, with weights that are not the encoder's
C17_WideScheduleParted ==
  /\ pc = "done"
  /\ params.v_max > 32767
  /\ \E z \in DOMAIN enc.bands : dec.bands[z].weights # enc.bands[z].weights


\* the centered value v is what the rows keep for sample (x, y) of band z of
\* img: the encoder keeps input - 2^(D-1), the decoder the value whose
\* clipped, re-offset form it wrote to the output
RowKeeps(v, p, img, z, x, y, exact) ==
  IF exact THEN v = img[z * (p.NX * p.NY) + y * p.NX + x] - Pow2(p.D - 1)
  ELSE clip_int64(v + Pow2(p.D - 1), 0, Pow2(p.D) - 1)
         = img[z * (p.NX * p.NY) + y * p.NX + x]

\* the two-row window of band z before its pixel (x, y)
WindowAt(band, p, img, z, x, y, exact) ==
  /\ \A j \in 0..(p.NX - 1) :
       IF y = 0 THEN band.prev_row[j] = 0
       ELSE RowKeeps(band.prev_row[j], p, img, z, j, y - 1, exact)
  /\ \A j \in 0..(p.NX - 1) :
       IF j < x THEN RowKeeps(band.curr_row[j], p, img, z, j, y, exact)
       ELSE band.curr_row[j] = 0

\* every band has the window of the next of its pixels: the bands before
\* the band of iteration s are one pixel ahead of the others
WindowsAt(bands, p, img, s, exact) ==
  \A z \in 0..(p.NZ - 1) :
    WindowAt(bands[z], p, img, z,
             ((s + p.NZ - 1 - z) \div p.NZ) % p.NX,
             ((s + p.NZ - 1 - z) \div p.NZ) \div p.NX, exact)

\* C18: the two-row window.  At the start of sample (x, y, z) band z's
\* prev_row holds the centered samples of row y-1 of band z (zeros when
\* y = 0), curr_row[0..x-1] the samples of row y already processed and
\* curr_row[x..NX-1] zeros; storing the sample at x = NX-1 copies curr_row
\* to prev_row and clears curr_row, in that band only: every other band
\* keeps the window of its own next pixel.  The band of an iteration is
\* s mod NZ.
C18_TwoRowWindow ==
  /\ pc = "encode" =>
       /\ WindowsAt(enc.bands, params, input, enc.s, TRUE)
       /\ enc.s < Total(params) =>
            locate(params, enc.control, enc.s).z = enc.s % params.NZ
  /\ pc = "decode" =>
       /\ WindowsAt(dec.bands, dec.effective, output, dec.s, FALSE)
       /\ locate(dec.effective, dec.control, dec.s).z = dec.s % dec.effective.NZ

\* the encoder of a two-band image before the last pixel of a row of band
\* 1, with samples in both rows that are not mid-range, while band 0 has
\* stored its sample of that pixel and rotated its rows
C18_BothRowsFilled ==
  /\ pc = "encode"
  /\ params.NZ = 2
  /\ enc.s = 2 * (params.NX + 1) + 1
  /\ enc.s < Total(params)
  /\ enc.bands[1].prev_row[0] # 0
  /\ enc.bands[1].curr_row[0] # 0
  /\ enc.bands[0].prev_row[1] # 0
  /\ enc.bands[0].curr_row[0] = 0


\* the prediction kept in the locals l of an iteration at depth d
PredictionInRange(l, d) ==
  /\ l.scaled_pred >= -Pow2(d)
  /\ l.scaled_pred <= Pow2(d) - 1
  /\ 2 * l.predicted <= l.scaled_pred
  /\ l.scaled_pred <= 2 * l.predicted + 1
  /\ l.predicted >= -Pow2(d - 1)
  /\ l.predicted <= Pow2(d - 1) - 1
  /\ theta_from_pred(l.predicted, d) >= 0

\* C19: at every step of encode and of decode the predictor's scaled_pred
\* lies in [-2^D, 2^D - 1], predicted is floor(scaled_pred / 2), hence
\* predicted lies in [-2^(D-1), 2^(D-1) - 1] and theta >= 0.
C19_PredictionRange ==
  /\ (pc \in {"encode", "encoded", "decode", "done"} /\ enc.s > 0) =>
       PredictionInRange(enc.last, params.D)
  /\ (pc \in {"decode", "done"} /\ dec.s > 0) =>
       PredictionInRange(dec.last, dec.effective.D)

\* a decoded sample off the origin whose scaled prediction is the lowest
\* value of the range, where theta is 0
C19_LowestPrediction ==
  /\ pc \in {"decode", "done"}
  /\ dec.s > 1
  /\ dec.effective.D > 1
  /\ dec.last.scaled_pred = -Pow2(dec.effective.D)
  /\ theta_from_pred(dec.last.predicted, dec.effective.D) = 0


\* w lies in [-2^(omega+2), 2^(omega+2) - 1]; from omega = 29 on that range
\* holds every int32_t
InWeightRange(w, omega) ==
  IF omega + 2 <= 30 THEN -Pow2(omega + 2) <= w /\ w <= Pow2(omega + 2) - 1
  ELSE Int32Min <= w /\ w <= Int32Max

\* C20: for every admissible omega in (0, 31], after every weight_update
\* call, the weights being int32_t, each weight component w satisfies
\* -2^(omega+2) <= w <= 2^(omega+2) - 1.
C20_WeightRange ==
  (probe.kind = "weights" /\ probe.calls > 0) =>
    \A i \in DOMAIN probe.weights : InWeightRange(probe.weights[i], probe.omega)

\* omega = 28: updates of one sign have taken a component to each end of
\* the range
C20_SaturatedWeights ==
  /\ probe.kind = "weights"
  /\ probe.omega = 28
  /\ probe.weights[0] = Pow2(30) - 1
  /\ probe.weights[1] = -Pow2(30)


\* components lo..hi of w follow the chain of eighths from floor(7*2^omega/8)
\* at component 0
ChainOfEighths(w, omega, hi) ==
  \A i \in 0..hi :
    w[i] = IF i = 0 THEN (7 * Pow2(omega)) \div 8 ELSE w[i - 1] \div 8

\* C21 as stated: at the first cell of the cube the band's weight vector of
\* length P+3 is reseeded so that w[0] = floor(7*2^omega / 8) and
\* w[i] = floor(w[i-1] / 8) for 1 <= i < P+3.
C21_ReseedAsStated ==
  (probe.kind = "seed" /\ probe.stage = "reseeded" /\ ~probe.reduced) =>
    /\ DOMAIN probe.weights = 0..(probe.P + 2)
    /\ ChainOfEighths(probe.weights, probe.omega, probe.P + 2)

\* C21: at the first cell of the cube the band's weight vector of length
\* P+3 is reseeded, whatever it held: the chain w[0] = floor(7*2^omega / 8),
\* w[i] = floor(w[i-1] / 8) runs through the first P components only, and
\* the three directional taps that follow them are 0; with P = 0 the whole
\* vector is 0.  In reduced mode the vector has P components, all of the
\* chain.
C21_Reseed ==
  (probe.kind = "seed" /\ probe.stage = "reseeded") =>
    IF probe.reduced
    THEN /\ DOMAIN probe.weights = 0..(probe.P - 1)
         /\ ChainOfEighths(probe.weights, probe.omega, probe.P - 1)
    ELSE /\ DOMAIN probe.weights = 0..(probe.P + 2)
         /\ ChainOfEighths(probe.weights, probe.omega, probe.P - 1)
         /\ \A i \in probe.P..(probe.P + 2) : probe.weights[i] = 0

\* a vector of order 2 reseeded for omega = 4 to 14, 1, 0, 0, 0
C21_OrderTwoReseeded ==
  /\ probe.kind = "seed"
  /\ probe.stage = "reseeded"
  /\ ~probe.reduced
  /\ probe.P = 2
  /\ probe.omega = 4
  /\ probe.weights = [i \in 0..4 |-> IF i = 0 THEN 14 ELSE IF i = 1 THEN 1 ELSE 0]


\* the local sum L of the stated cases, taken in the stated order
StatedLocalSum(c, n) ==
  IF c.first_line /\ c.first_in_line THEN 0
  ELSE IF c.first_line THEN 4 * n.west
  ELSE IF c.first_in_line THEN 2 * n.north + 2 * n.north_east
  ELSE IF c.last_in_line THEN n.west + n.north_west + 2 * n.north
  ELSE n.west + n.north_west + n.north + n.north_east

\* C22: local_diff in neighbor-narrow mode, for every combination of
\* (first_line, first_in_line, last_in_line), first_in_line and last_in_line
\* together included: L = 0 and d_c = 0 at the origin; L = 4*west on the rest
\* of the first line; L = 2*north + 2*north_east when first_in_line;
\* L = west + north_west + 2*north when last_in_line; L = west + north_west
\* + north + north_east otherwise; d_n, d_w, d_nw are 4*neighbor - L off the
\* first line (north in place of west and north_west when first_in_line)
\* and 0 on the first line; d_c = 4*cur - L off the origin.
C22_LocalDiffCases ==
  (probe.kind = "diff" /\ probe.stage = "done") =>
    /\ probe.local.local_sum = StatedLocalSum(probe.ctrl, probe.samples)
    /\ probe.local.d_c = IF probe.ctrl.first_line /\ probe.ctrl.first_in_line THEN 0
                          ELSE 4 * probe.samples.cur - probe.local.local_sum
    /\ IF probe.ctrl.first_line
       THEN probe.local.d_n = 0 /\ probe.local.d_w = 0 /\ probe.local.d_nw = 0
       ELSE /\ probe.local.d_n = 4 * probe.samples.north - probe.local.local_sum
            /\ probe.local.d_w =
                 4 * (IF probe.ctrl.first_in_line THEN probe.samples.north
                      ELSE probe.samples.west) - probe.local.local_sum
            /\ probe.local.d_nw =
                 4 * (IF probe.ctrl.first_in_line THEN probe.samples.north
                      ELSE probe.samples.north_west) - probe.local.local_sum
    /\ (probe.samples = TestSamples /\ ~probe.ctrl.first_line
          /\ ~probe.ctrl.first_in_line /\ ~probe.ctrl.last_in_line) =>
         probe.local = [local_sum |-> 484, d_c |-> -4, d_n |-> 4, d_w |-> -12,
                        d_nw |-> 0]

\* a pixel of a one-column image below the first line: first_in_line and
\* last_in_line together, where the first-column sum differs from the
\* last-column sum and from the differences taken on west
C22_SingleColumnPixel ==
  /\ probe.kind = "diff"
  /\ probe.stage = "done"
  /\ ~probe.ctrl.first_line
  /\ probe.ctrl.first_in_line
  /\ probe.ctrl.last_in_line
  /\ probe.local.local_sum # probe.samples.west + probe.samples.north_west
                                + 2 * probe.samples.north
  /\ probe.local.d_w # 4 * probe.samples.west - probe.local.local_sum


\* lhs <= w for an integer lhs below 2^31 and an unreduced sum w
LeWide(lhs, w) ==
  \/ w.carry > 0
  \/ lhs \div Half < w.hi
  \/ (lhs \div Half = w.hi /\ lhs % Half <= w.lo)

\* k is the stated Golomb parameter for the counter, the depth and the sum
\* rhs = accumulator + floor(49 * counter / 128)
StatedK(k, counter, depth, rhs) ==
  /\ k \in 0..Max(0, depth - 2)
  /\ counter = 0 => k = Max(0, depth - 2)
  /\ (counter > 0 /\ ~LeWide(2 * counter, rhs)) => k = 0
  /\ (counter > 0 /\ LeWide(counter, rhs)) =>
       /\ LeWide(counter * Pow2(k), rhs)
       /\ \A j \in (k + 1)..Max(0, depth - 2) : ~LeWide(counter * Pow2(j), rhs)

\* C23: for every counter Gamma, accumulator Sigma_z and depth D the Golomb
\* parameter of a sample is the largest k in [0, max(0, D-2)] with
\* Gamma * 2^k <= Sigma_z + floor(49 * Gamma / 128), is 0 when
\* 2 * Gamma > Sigma_z + floor(49 * Gamma / 128), and is max(0, D-2) when
\* Gamma = 0; encoder and decoder select the same k from equal state.
C23_SelectK ==
  (probe.kind = "select" /\ probe.stage = "decoded") =>
    /\ probe.k_enc = probe.k_dec
    /\ StatedK(probe.k_enc, probe.counter, probe.depth,
               wide_sum(probe.accumulator, compute_rhs_part(probe.counter)))

\* the parameter selected where the 32-bit sum lost its carry: 0, at depth
\* 16, for an accumulator near 2^32
C23_CarryLost ==
  /\ probe.kind = "select"
  /\ probe.stage = "decoded"
  /\ probe.depth = 16
  /\ probe.counter = 56874
  /\ wide_sum(probe.accumulator, compute_rhs_part(probe.counter)).carry = 1
  /\ probe.k_enc = 0
  /\ probe.k_dec = 0


\* the n bits of v, MSB-first, and n zero bits
BitsOf(v, n) == [i \in 1..n |-> (v \div Pow2(n - i)) % 2]

ZeroBits(n) == [i \in 1..n |-> 0]

\* the stated codeword of delta under the parameter k
StatedCodeword(delta, k, p) ==
  IF delta \div Pow2(k) < p.coder.u_max
  THEN (ZeroBits(delta \div Pow2(k)) \o <<1>>) \o BitsOf(delta % Pow2(k), k)
  ELSE ZeroBits(p.coder.u_max) \o BitsOf(delta, p.D)

\* C24: for every sample but the first, with delta in [0, 2^D - 1], the
\* parameter k and u = delta >> k: if u < u_max the coder emits exactly u
\* zero bits, a one and the low k bits of delta (u + 1 + k bits), otherwise
\* exactly u_max zero bits and the D bits of delta (u_max + D bits); the
\* decoder, reading zeros until a one or until u_max zeros, recovers the
\* same delta and consumes exactly the emitted bits.
C24_Codeword ==
  /\ (probe.kind = "code" /\ probe.stage \in {"emitted", "read"}) =>
       /\ SubSeq(probe.writer.history, probe.lead + 1, probe.ends)
            = StatedCodeword(probe.delta, probe.k, probe.p)
       /\ probe.ends - probe.lead
            = IF probe.delta \div Pow2(probe.k) < probe.p.coder.u_max
              THEN (probe.delta \div Pow2(probe.k)) + 1 + probe.k
              ELSE probe.p.coder.u_max + probe.p.D
  /\ (probe.kind = "code" /\ probe.stage = "read") =>
       /\ probe.got.ok
       /\ probe.got.value = probe.delta
       /\ probe.got.r.consumed_bits_ = probe.ends

\* a codeword with a unary part and a remainder, written behind other bits
\* and read back
C24_RemainderRead ==
  /\ probe.kind = "code"
  /\ probe.stage = "read"
  /\ probe.lead > 0
  /\ probe.k > 0
  /\ probe.delta \div Pow2(probe.k) > 0
  /\ probe.delta \div Pow2(probe.k) < probe.p.coder.u_max
  /\ probe.delta % Pow2(probe.k) > 0
  /\ probe.got.value = probe.delta


\* the counter after a sample, from the counter before it (gamma_pre), as
\* stated: l holds the flags and the band of the sample
StatedCounter(gamma_pre, l, p) ==
  IF l.ctrl.first_line /\ l.ctrl.first_in_line
  THEN Pow2(p.coder.initial_count_exponent)
  ELSE IF l.z = p.NZ - 1
  THEN (IF gamma_pre < Pow2(p.coder.counter_size) - 1 THEN gamma_pre + 1
        ELSE (gamma_pre + 1) \div 2)
  ELSE gamma_pre

\* C25: the shared counter changes only at two kinds of sample: at a sample
\* with first_line and first_in_line it is set to 2^gamma0, and otherwise at
\* a sample of the last band (z = NZ-1) it becomes Gamma+1 if
\* Gamma < 2^gamma - 1 and (Gamma+1) >> 1 otherwise; every other sample
\* leaves it unchanged.  In the encoder and in the decoder alike.
C25_CounterFrame ==
  [][/\ enc'.s = enc.s + 1 =>
          enc'.coder.counter_ = StatedCounter(enc.coder.counter_, enc'.last, params)
     /\ dec'.s = dec.s + 1 =>
          dec'.coder.counter_
            = StatedCounter(dec.coder.counter_, dec'.last, dec.effective)]_vars

\* the decoder of a two-band image after a sample of the last band has
\* halved the counter from 8 to 4, the first band having left it at 8
C25_HalvedAtLastBand ==
  /\ pc \in {"decode", "done"}
  /\ dec.effective.NZ = 2
  /\ dec.effective.coder.counter_size = 3
  /\ dec.s = 4
  /\ dec.last.z = 1
  /\ dec.coder.counter_ = 4


\* the counter c of a coder of p is at least 1 and at most 2^gamma - 1
CounterBounded(c, p) == 1 <= c /\ c <= Pow2(p.coder.counter_size) - 1

\* C26: the counter is initialised to 2^gamma0 and saturates at
\* 2^gamma - 1: for every admissible gamma in (0,16] and gamma0 in [0,16],
\* once the origin pixel has been processed the counter is at least 1 and
\* never exceeds 2^gamma - 1 at any later step, in the encoder and in the
\* decoder.
C26_CounterBounds ==
  /\ (pc \in {"encode", "encoded", "decode", "done"} /\ enc.s >= params.NZ) =>
       CounterBounded(enc.coder.counter_, params)
  /\ (pc \in {"decode", "done"} /\ dec.s >= dec.effective.NZ) =>
       CounterBounded(dec.coder.counter_, dec.effective)

\* an encoder past the origin pixel whose counter is 2^gamma0 = 8 under
\* gamma = 3
C26_CounterAboveSaturation ==
  /\ pc = "encode"
  /\ enc.s >= params.NZ
  /\ params.coder.counter_size = 3
  /\ params.coder.initial_count_exponent = 3
  /\ enc.coder.counter_ = 8


\* pred + residual lies outside [-2^(depth-1), 2^(depth-1) - 1]
OutOfRange(pred, residual, depth) ==
  pred + residual < -Pow2(depth - 1) \/ pred + residual > Pow2(depth - 1) - 1

\* the sign-flip branch of residual_unmap fires on delta: the residual the
\* parity selects takes the reconstruction out of range
FlipFires(delta, scaled_pred, depth) ==
  OutOfRange(Shr(scaled_pred, 1),
             unmap_signed(delta, is_even(scaled_pred),
                          theta_from_pred(Shr(scaled_pred, 1), depth)),
             depth)

\* C27: the sign-flip branch of residual_unmap is reachable on the deltas of
\* residual_map (the state C27_SignFlipped); whenever it fires, delta
\* exceeds 2 * theta and the flipped residual is the encoder's residual;
\* for delta <= 2 * theta it never fires on a delta residual_map produced.
C27_SignFlip ==
  (probe.kind = "map" /\ probe.stage = "unmapped") =>
    /\ FlipFires(probe.mapped.delta, probe.scaled_pred, probe.depth) =>
         /\ probe.mapped.delta > 2 * probe.mapped.theta
         /\ probe.unmapped = probe.mapped.residual
         /\ probe.unmapped
              = -unmap_signed(probe.mapped.delta, is_even(probe.scaled_pred),
                              probe.mapped.theta)
    /\ probe.mapped.delta <= 2 * probe.mapped.theta =>
         ~FlipFires(probe.mapped.delta, probe.scaled_pred, probe.depth)

\* an in-range sample whose delta exceeds 2 * theta and whose
\* parity-selected residual would reconstruct a sample out of range: the
\* branch fired and returned the encoder's residual
C27_SignFlipped ==
  /\ probe.kind = "map"
  /\ probe.stage = "unmapped"
  /\ probe.depth > 1
  /\ probe.mapped.delta > 2 * probe.mapped.theta
  /\ FlipFires(probe.mapped.delta, probe.scaled_pred, probe.depth)
  /\ probe.unmapped = probe.mapped.residual
  /\ probe.mapped.residual # 0


\* C28: for every depth D, every scaled prediction in [-2^D, 2^D - 1] and
\* every centered sample in [-2^(D-1), 2^(D-1) - 1], residual_map yields
\* 0 <= delta <= 2^D - 1, so that masking delta to D bits, as the raw field
\* of the first sample and the escape code do, gives delta itself.
C28_DeltaFitsDepth ==
  (probe.kind = "map" /\ probe.stage \in {"mapped", "unmapped"}) =>
    /\ 0 <= probe.mapped.delta
    /\ probe.mapped.delta <= Pow2(probe.depth) - 1
    /\ probe.mapped.delta % Pow2(probe.depth) = probe.mapped.delta

\* a sample at the far end of the range from the prediction: delta takes
\* its greatest value 2^D - 1
C28_GreatestDelta ==
  /\ probe.kind = "map"
  /\ probe.stage = "mapped"
  /\ probe.depth = MaxMapD
  /\ probe.mapped.delta = Pow2(probe.depth) - 1
  /\ Abs(probe.mapped.residual) = Pow2(probe.depth) - 1


\* the index in the band-sequential array of the sample of scan step j
StepIndex(p, j) == (j % p.NZ) * (p.NX * p.NY) + (j \div p.NZ)

\* the images a and b hold the same samples at the scan steps before i
AgreeBefore(p, a, b, i) == \A j \in 0..(i - 1) : a[StepIndex(p, j)] = b[StepIndex(p, j)]

\* the scaled_pred and the k of the iteration that starts from e on image inp
ComingPrediction(p, inp, e) ==
  [scaled_pred |-> encode_payload_step(p, inp, e).last.scaled_pred,
   k |-> encode_payload_step(p, inp, e).last.k]

\* C29: prediction is causal.  The scaled_pred, the k and the coder state of
\* scan step i depend only on the samples of the scan steps before i: two
\* images that agree on the first i samples in BIP order give the same
\* payload bits for those i samples, the same coder state, rows and weights
\* at the start of step i and the same scaled_pred and k in step i.
C29_Causal ==
  (probe.kind = "pair" /\ pc = "encode"
     /\ AgreeBefore(params, input, probe.other, enc.s)) =>
    /\ probe.enc = enc
    /\ enc.s < Total(params) =>
         ComingPrediction(params, probe.other, probe.enc)
           = ComingPrediction(params, input, enc)

\* two encoders in the middle of their images, which agreed up to the
\* latest sample and differ in it: the bits before it are the same and are
\* not empty, the bits of it differ
C29_PartedAtLatest ==
  /\ probe.kind = "pair"
  /\ pc = "encode"
  /\ enc.s > 1
  /\ enc.s < Total(params)
  /\ AgreeBefore(params, input, probe.other, enc.s - 1)
  /\ ~AgreeBefore(params, input, probe.other, enc.s)
  /\ enc.last.bits_before > 0
  /\ probe.enc.last.bits_before = enc.last.bits_before
  /\ probe.enc.writer # enc.writer


\* C30: for every payload bit content under a valid header, every value
\* decode writes to output lies in [0, 2^D - 1], whether decode completes or
\* stops with TruncatedPayload.
C30_OutputInRange ==
  \A i \in DOMAIN output :
    output[i] # Unwritten => (0 <= output[i] /\ output[i] <= Pow2(params.D) - 1)

\* a decode that stopped with TruncatedPayload after it wrote samples, the
\* latest of them from a delta of 2^D or more that put the sample outside
\* the range before the clamp
C30_ClampedThenTruncated ==
  /\ channel.kind = "garbled"
  /\ pc = "failed"
  /\ err = "TruncatedPayload"
  /\ dec.s > 1
  /\ dec.last.delta >= Pow2(params.D)
  /\ dec.last.sample_centered + Pow2(params.D - 1) > Pow2(params.D) - 1
  /\ output[StepIndex(params, dec.s - 1)] = Pow2(params.D) - 1

====
